---- MODULE Spec2Model ----
(***************************************************************************)
(* A model of the TajGST logger pipeline:                                  *)
(*   scripts/plot_ground_temperature.py   parsers, file grouper, merger,   *)
(*                                        metadata loader (dictionary)     *)
(*   scripts/interactive_map.py           metadata loader (list of rows)   *)
(*   scripts/apply_time_offset_sangvor.py offset parser                    *)
(* Text is modelled as sequences of one-character strings, so that the     *)
(* string operations of the code (strip, split, lower, substring tests)    *)
(* are computed and not assumed.                                           *)
(***************************************************************************)
EXTENDS Integers, Sequences, FiniteSets, TLC

(***************************************************************************)
(* Text helpers (Python str methods used by the scripts).                  *)
(***************************************************************************)
Digits == <<"0", "1", "2", "3", "4", "5", "6", "7", "8", "9">>

DigitSet == {"0", "1", "2", "3", "4", "5", "6", "7", "8", "9"}

IsDigit(c) == c \in DigitSet

DigitValues == [c \in DigitSet |-> (CHOOSE i \in 1..10 : Digits[i] = c) - 1]

DigitVal(c) == DigitValues[c]

LowerLetters == <<"a", "b", "c", "d", "e", "f", "g", "h", "i", "j", "k", "l", "m",
                  "n", "o", "p", "q", "r", "s", "t", "u", "v", "w", "x", "y", "z">>

UpperLetters == <<"A", "B", "C", "D", "E", "F", "G", "H", "I", "J", "K", "L", "M",
                  "N", "O", "P", "Q", "R", "S", "T", "U", "V", "W", "X", "Y", "Z">>

LowerSet == {LowerLetters[i] : i \in 1..26}

UpperSet == {UpperLetters[i] : i \in 1..26}

ToLower == [c \in UpperSet |-> LowerLetters[CHOOSE i \in 1..26 : UpperLetters[i] = c]]

ToUpper == [c \in LowerSet |-> UpperLetters[CHOOSE i \in 1..26 : LowerLetters[i] = c]]

\* str.lower() on one character
LowerChar(c) == IF c \in UpperSet THEN ToLower[c] ELSE c

\* str.upper() on one character
UpperChar(c) == IF c \in LowerSet THEN ToUpper[c] ELSE c

Lower(s) == [i \in 1..Len(s) |-> LowerChar(s[i])]

Upper(s) == [i \in 1..Len(s) |-> UpperChar(s[i])]

IsSpace(c) == c \in {" ", "\t", "\n", "\r"}

\* s[a..b] (1-based, inclusive), the empty text when a > b
Slice(s, a, b) == IF a > b THEN << >> ELSE SubSeq(s, a, b)

MinOf(S) == CHOOSE i \in S : \A j \in S : i <= j

MaxOf(S) == CHOOSE i \in S : \A j \in S : i >= j

\* s from the first to the last of the positions keep, the empty text when none
Between(s, keep) == IF keep = {} THEN << >> ELSE SubSeq(s, MinOf(keep), MaxOf(keep))

\* str.strip(): drop leading and trailing whitespace
Strip(s) == Between(s, {i \in 1..Len(s) : ~IsSpace(s[i])})

\* s.startswith(p)
StartsWith(s, p) == Len(s) >= Len(p) /\ SubSeq(s, 1, Len(p)) = p

\* s.endswith(p)
EndsWith(s, p) == Len(s) >= Len(p) /\ SubSeq(s, Len(s) - Len(p) + 1, Len(s)) = p

\* "sub in s"
Contains(s, sub) ==
    \E i \in 1..(Len(s) - Len(sub) + 1) : SubSeq(s, i, i + Len(sub) - 1) = sub

\* the positions of the character c in s
Positions(s, c) == {i \in 1..Len(s) : s[i] = c}

\* s up to the first of the positions ps, all of s when there is none
UpTo(s, ps) == IF ps = {} THEN s ELSE Slice(s, 1, MinOf(ps) - 1)

\* s after the first of the positions ps, the empty text when there is none
After(s, ps) == IF ps = {} THEN << >> ELSE Slice(s, MinOf(ps) + 1, Len(s))

\* s.split(c)[0]
SplitFirst(s, c) == UpTo(s, Positions(s, c))

RECURSIVE Split(_, _)
\* s.split(c): the list of the pieces between the occurrences of c
Split(s, c) ==
    IF Positions(s, c) = {} THEN <<s>>
    ELSE <<SplitFirst(s, c)>> \o Split(After(s, Positions(s, c)), c)

\* s.replace(c, "")
RemoveChar(s, c) == SelectSeq(s, LAMBDA x : x # c)

RECURSIVE Concat(_)
\* the concatenation of a list of texts
Concat(ss) == IF ss = << >> THEN << >> ELSE Head(ss) \o Concat(Tail(ss))

RECURSIVE DigitsValue(_)
\* int() of a text of decimal digits
DigitsValue(s) ==
    IF s = << >> THEN 0
    ELSE 10 * DigitsValue(SubSeq(s, 1, Len(s) - 1)) + DigitVal(s[Len(s)])

AllDigits(s) == \A i \in 1..Len(s) : IsDigit(s[i])

RECURSIVE Pow10(_)
Pow10(n) == IF n = 0 THEN 1 ELSE 10 * Pow10(n - 1)

(***************************************************************************)
(* datetime.strptime(text, "%d.%m.%Y %H:%M:%S") and float(text).           *)
(* strptime matches each directive with a pattern of its own: %d and %m    *)
(* take one or two digits (%d also a space and a digit), %Y four digits,   *)
(* %H, %M and %S one or two digits, and the space of the format stands     *)
(* for one or more whitespace characters.  A failure stands for            *)
(* ValueError.                                                             *)
(***************************************************************************)
IsLeap(y) == (y % 4 = 0 /\ y % 100 # 0) \/ y % 400 = 0

DaysInMonth(y, m) ==
    IF m = 2 THEN (IF IsLeap(y) THEN 29 ELSE 28)
    ELSE IF m \in {4, 6, 9, 11} THEN 30 ELSE 31

ValueError == [ok |-> FALSE]

\* datetime(y, mo, d, h, mi, se), ValueError when a field is out of range
MakeDatetime(y, mo, d, h, mi, se) ==
    IF /\ y >= 1 /\ mo \in 1..12 /\ d >= 1 /\ d <= DaysInMonth(y, mo)
       /\ h <= 23 /\ mi <= 59 /\ se <= 59
    THEN [ok |-> TRUE,
          dt |-> [year |-> y, month |-> mo, day |-> d,
                  hour |-> h, minute |-> mi, second |-> se]]
    ELSE ValueError

\* a field of one or two digits with a value in lo..hi
NumberField(t, lo, hi) ==
    /\ Len(t) \in {1, 2}
    /\ AllDigits(t)
    /\ DigitsValue(t) >= lo
    /\ DigitsValue(t) <= hi

\* %d: 3[0-1]|[1-2]\d|0[1-9]|[1-9]| [1-9]
DayField(t) ==
    \/ NumberField(t, 1, 31)
    \/ Len(t) = 2 /\ t[1] = " " /\ IsDigit(t[2]) /\ t[2] # "0"

DayValue(t) == IF t[1] = " " THEN DigitVal(t[2]) ELSE DigitsValue(t)

\* t without its leading whitespace
LStrip(t) ==
    IF \A i \in 1..Len(t) : IsSpace(t[i]) THEN << >>
    ELSE SubSeq(t, MinOf({i \in 1..Len(t) : ~IsSpace(t[i])}), Len(t))

\* %H:%M:%S at the end of the text; %S admits 60 and 61, which datetime rejects
StrptimeClock(d, mo, y, parts) ==
    IF /\ Len(parts) = 3
       /\ NumberField(parts[1], 0, 23)
       /\ NumberField(parts[2], 0, 59)
       /\ NumberField(parts[3], 0, 61)
    THEN MakeDatetime(DigitsValue(y), DigitsValue(mo), DayValue(d),
                      DigitsValue(parts[1]), DigitsValue(parts[2]), DigitsValue(parts[3]))
    ELSE ValueError

\* %Y and the whitespace after it
StrptimeYear(d, mo, rest) ==
    IF Len(rest) >= 5 /\ AllDigits(SubSeq(rest, 1, 4)) /\ IsSpace(rest[5])
    THEN StrptimeClock(d, mo, SubSeq(rest, 1, 4), Split(LStrip(Slice(rest, 5, Len(rest))), ":"))
    ELSE ValueError

\* %m and the dot after it
StrptimeMonth(d, rest) ==
    IF Positions(rest, ".") # {} /\ NumberField(SplitFirst(rest, "."), 1, 12)
    THEN StrptimeYear(d, SplitFirst(rest, "."), After(rest, Positions(rest, ".")))
    ELSE ValueError

Strptime(s) ==
    IF Positions(s, ".") # {} /\ DayField(SplitFirst(s, "."))
    THEN StrptimeMonth(SplitFirst(s, "."), After(s, Positions(s, ".")))
    ELSE ValueError

\* the order of datetime values: by date, then by time of day
DateKey(dt) == (dt.year * 13 + dt.month) * 32 + dt.day

TimeKey(dt) == (dt.hour * 60 + dt.minute) * 60 + dt.second

DtLess(a, b) ==
    \/ DateKey(a) < DateKey(b)
    \/ DateKey(a) = DateKey(b) /\ TimeKey(a) < TimeKey(b)

RECURSIVE StripZeros(_, _)
\* a decimal mant / 10^exp in lowest terms, so that "5" and "5.0" are one value
StripZeros(mant, exp) ==
    IF exp > 0 /\ mant % 10 = 0 THEN StripZeros(mant \div 10, exp - 1)
    ELSE [kind |-> "num", mant |-> mant, exp |-> exp]

NaN == [kind |-> "nan", mant |-> 0, exp |-> 0]

\* the digits of a number without its sign: integer part ip, fraction fp
ParseDecimal(neg, ip, fp) ==
    IF AllDigits(ip) /\ AllDigits(fp) /\ Len(ip) + Len(fp) > 0
    THEN [ok |-> TRUE,
          val |-> StripZeros((IF neg THEN -1 ELSE 1) * DigitsValue(ip \o fp), Len(fp))]
    ELSE ValueError

ParseUnsigned(neg, body) ==
    IF Lower(body) = <<"n", "a", "n">> THEN [ok |-> TRUE, val |-> NaN]
    ELSE ParseDecimal(neg, SplitFirst(body, "."), After(body, Positions(body, ".")))

ParseSigned(t) ==
    IF Len(t) > 0 /\ t[1] \in {"+", "-"}
    THEN ParseUnsigned(t[1] = "-", Slice(t, 2, Len(t)))
    ELSE ParseUnsigned(FALSE, t)

\* float(text): optional sign, digits with an optional fraction, or nan.
\* Exponent, infinity and digit-group forms are outside the model's inputs.
ParseFloat(s) == ParseSigned(Strip(s))

\* lo <= v <= hi for a float v and integers lo, hi (false for nan)
FloatInRange(v, lo, hi) ==
    v.kind = "num" /\ lo * Pow10(v.exp) <= v.mant /\ v.mant <= hi * Pow10(v.exp)

(***************************************************************************)
(* Files.  A file is [path, nheader, rows]: its path as text, the number   *)
(* of lines that precede rows, and the lines from there on, each a text    *)
(* without its line terminator.  Line number nheader + i is rows[i].       *)
(***************************************************************************)
S_sangvor == <<"s", "a", "n", "g", "v", "o", "r">>

\* "sangvor" in str(csv_file).lower()
IsSangvorPath(path) == Contains(Lower(path), S_sangvor)

\* the test on the path as written, without lower()
SkipLinesAsWritten(csv_file) ==
    IF Contains(csv_file.path, S_sangvor) THEN 22 ELSE 12

determine_skip_lines(csv_file) ==
    IF IsSangvorPath(csv_file.path) THEN 22 ELSE 12

\* what the loops keep: the two result lists
NoSamples == [timestamps |-> << >>, temperatures |-> << >>]

\* the two appends of a parser that makes them after both conversions
AppendPair(acc, timestamp, temperature) ==
    IF ~timestamp.ok THEN acc
    ELSE IF ~temperature.ok THEN acc
    ELSE [timestamps   |-> Append(acc.timestamps, timestamp.dt),
          temperatures |-> Append(acc.temperatures, temperature.val)]

\* the length test asking for a third field
SangvorPartsOfThree(acc, parts) ==
    IF Len(parts) < 3 THEN acc
    ELSE AppendPair(acc, Strptime(Strip(parts[1])), ParseFloat(Strip(parts[2])))

SangvorParts(acc, parts) ==
    IF Len(parts) < 2 THEN acc
    ELSE AppendPair(acc, Strptime(Strip(parts[1])), ParseFloat(Strip(parts[2])))

SangvorStripped(acc, line) ==
    IF line = << >> \/ Positions(line, ";") = {} THEN acc
    ELSE SangvorParts(acc, Split(line, ";"))

\* one pass of the loop body of parse_sangvor_file on a line
SangvorLine(acc, rawline, row_num, skip_lines) ==
    IF row_num <= skip_lines THEN acc ELSE SangvorStripped(acc, Strip(rawline))

RECURSIVE SangvorLoop(_, _, _, _)
SangvorLoop(acc, rows, row_num, skip_lines) ==
    IF rows = << >> THEN acc
    ELSE SangvorLoop(SangvorLine(acc, Head(rows), row_num, skip_lines),
                     Tail(rows), row_num + 1, skip_lines)

parse_sangvor_file(file, skip_lines) ==
    SangvorLoop(NoSamples, file.rows, file.nheader + 1, skip_lines)

\* csv.reader on a line without quotes: the comma-separated fields,
\* and the empty list for an empty line
CsvRow(line) == IF line = << >> THEN << >> ELSE Split(line, ",")

\* timestamps.append(strptime(..)) and then temperatures.append(float(..)),
\* inside one try: the second conversion may fail after the first append
AppendEach(acc, timestamp, temperature) ==
    IF ~timestamp.ok THEN acc
    ELSE IF ~temperature.ok
    THEN [acc EXCEPT !.timestamps = Append(@, timestamp.dt)]
    ELSE [timestamps   |-> Append(acc.timestamps, timestamp.dt),
          temperatures |-> Append(acc.temperatures, temperature.val)]

\* the header test without upper(): only "NO" as written is skipped
FanFieldsAsWritten(acc, row, first) ==
    IF first = << >> \/ StartsWith(first, <<"<">>) THEN acc
    ELSE IF first = <<"N", "O">> THEN acc
    ELSE IF Len(row) < 3 THEN acc
    ELSE AppendEach(acc, Strptime(Strip(row[2])), ParseFloat(Strip(row[3])))

FanFields(acc, row, first) ==
    IF first = << >> \/ StartsWith(first, <<"<">>) THEN acc
    ELSE IF Upper(first) = <<"N", "O">> THEN acc
    ELSE IF Len(row) < 3 THEN acc
    ELSE AppendEach(acc, Strptime(Strip(row[2])), ParseFloat(Strip(row[3])))

\* one pass of the loop body of parse_fanmountains_file on a row
FanRow(acc, row, row_num, skip_lines) ==
    IF row_num <= skip_lines THEN acc
    ELSE IF row = << >> THEN acc
    ELSE FanFields(acc, row, Strip(row[1]))

RECURSIVE FanLoop(_, _, _, _)
FanLoop(acc, rows, row_num, skip_lines) ==
    IF rows = << >> THEN acc
    ELSE FanLoop(FanRow(acc, CsvRow(Head(rows)), row_num, skip_lines),
                 Tail(rows), row_num + 1, skip_lines)

Min(a, b) == IF a <= b THEN a ELSE b

\* the lists cut to the length of the shorter one
Truncate(got, min_length) ==
    [timestamps   |-> Slice(got.timestamps, 1, min_length),
     temperatures |-> Slice(got.temperatures, 1, min_length)]

SameLength(got) == Truncate(got, Min(Len(got.timestamps), Len(got.temperatures)))

parse_fanmountains_file(file, skip_lines) ==
    SameLength(FanLoop(NoSamples, file.rows, file.nheader + 1, skip_lines))

parse_logger_file(file, skip_lines) ==
    IF IsSangvorPath(file.path)
    THEN parse_sangvor_file(file, skip_lines)
    ELSE parse_fanmountains_file(file, skip_lines)

(***************************************************************************)
(* concatenate_timeseries: parse every file of the group, concatenate,     *)
(* sort by timestamp (list.sort is stable) and drop repeated timestamps.   *)
(***************************************************************************)
\* list(zip(a, b))
Zip(a, b) == [i \in 1..Min(Len(a), Len(b)) |-> <<a[i], b[i]>>]

RECURSIVE InsertByKeyBeforeTies(_, _)
\* a sort that is not stable: x goes ahead of the elements with its own key
InsertByKeyBeforeTies(sorted, x) ==
    IF sorted = << >> THEN <<x>>
    ELSE IF ~DtLess(Head(sorted)[1], x[1]) THEN <<x>> \o sorted
    ELSE <<Head(sorted)>> \o InsertByKeyBeforeTies(Tail(sorted), x)

RECURSIVE InsertByKey(_, _)
\* x put into the sorted list after every element whose key is not greater
InsertByKey(sorted, x) ==
    IF sorted = << >> THEN <<x>>
    ELSE IF DtLess(x[1], Head(sorted)[1]) THEN <<x>> \o sorted
    ELSE <<Head(sorted)>> \o InsertByKey(Tail(sorted), x)

RECURSIVE SortByTimestamp(_)
\* combined.sort(key=lambda x: x[0])
SortByTimestamp(combined) ==
    IF combined = << >> THEN << >>
    ELSE InsertByKey(SortByTimestamp(SubSeq(combined, 1, Len(combined) - 1)),
                     combined[Len(combined)])

\* last_timestamp = None: a value that equals no datetime
NoTimestamp == [year |-> 0, month |-> 0, day |-> 0, hour |-> 0, minute |-> 0, second |-> 0]

RECURSIVE RemoveDuplicatesNoUpdate(_, _)
\* the loop without its assignment to last_timestamp
RemoveDuplicatesNoUpdate(combined, last_timestamp) ==
    IF combined = << >> THEN << >>
    ELSE IF Head(combined)[1] # last_timestamp
    THEN <<Head(combined)>> \o RemoveDuplicatesNoUpdate(Tail(combined), last_timestamp)
    ELSE RemoveDuplicatesNoUpdate(Tail(combined), last_timestamp)

RECURSIVE RemoveDuplicates(_, _)
\* the loop that keeps a sample when its timestamp differs from the last kept one
RemoveDuplicates(combined, last_timestamp) ==
    IF combined = << >> THEN << >>
    ELSE IF Head(combined)[1] # last_timestamp
    THEN <<Head(combined)>> \o RemoveDuplicates(Tail(combined), Head(combined)[1])
    ELSE RemoveDuplicates(Tail(combined), last_timestamp)

\* zip(*unique_data)
Unzip(unique_data) ==
    [timestamps   |-> [i \in 1..Len(unique_data) |-> unique_data[i][1]],
     temperatures |-> [i \in 1..Len(unique_data) |-> unique_data[i][2]]]

\* the step with last_timestamp starting at the first timestamp, not at None
SortAndDeduplicateFromFirst(ts, temps) ==
    IF ts = << >> THEN NoSamples
    ELSE Unzip(RemoveDuplicates(SortByTimestamp(Zip(ts, temps)), ts[1]))

\* lines 67-85 of concatenate_timeseries, on the concatenated lists
SortAndDeduplicate(ts, temps) ==
    IF ts = << >> THEN NoSamples
    ELSE Unzip(RemoveDuplicates(SortByTimestamp(Zip(ts, temps)), NoTimestamp))

\* what parse_logger_file returns for each file of the group, in order
ParseGroup(group) ==
    [i \in 1..Len(group) |-> parse_logger_file(group[i], determine_skip_lines(group[i]))]

RECURSIVE ExtendAll(_, _)
\* all_timestamps / all_temperatures after the loop over the files
ExtendAll(acc, results) ==
    IF results = << >> THEN acc
    ELSE ExtendAll([timestamps   |-> acc.timestamps \o Head(results).timestamps,
                    temperatures |-> acc.temperatures \o Head(results).temperatures],
                   Tail(results))

(***************************************************************************)
(* The inputs of the merge.                                                *)
(***************************************************************************)
MaxFiles == 2

MaxRows == 3

TS1 == <<"0", "1", ".", "0", "1", ".", "2", "0", "2", "0", " ", "0", "0", ":", "0", "0", ":", "0", "0">>

TS2 == <<"0", "1", ".", "0", "1", ".", "2", "0", "2", "0", " ", "0", "6", ":", "0", "0", ":", "0", "0">>

TS3 == <<"0", "2", ".", "0", "1", ".", "2", "0", "2", "0", " ", "0", "0", ":", "0", "0", ":", "0", "0">>

\* matches the format, but is no date
TSBad == <<"3", "1", ".", "0", "2", ".", "2", "0", "2", "0", " ", "0", "0", ":", "0", "0", ":", "0", "0">>

TempA == <<"5", ".", "0">>

TempB == <<"-", "3", ".", "2">>

TempBad == <<"a", "b", "c">>

\* the (timestamp text, temperature text) of the data lines the model writes
DataRows ==
    { <<TS1, TempA>>, <<TS2, TempB>>, <<TS3, TempA>>, <<TS2, TempA>>,
      <<TS1, TempBad>>, <<TSBad, TempB>> }

FanDir == <<"f", "a", "n", "/">>

SangvorDir == <<"S", "a", "n", "g", "v", "o", "r", "/">>

FanLogger == <<"A", "5", "3", "8", "D", "8">>

SangvorLogger == <<"2", "0", "0", "5", "-", "0", "0", "7", "0">>

DotCsv == <<".", "c", "s", "v">>

\* the i-th file of a logger, of either family
FilePath(sangvor, i) ==
    IF sangvor
    THEN SangvorDir \o SangvorLogger \o <<"_", Digits[i + 1]>> \o DotCsv
    ELSE FanDir \o FanLogger \o <<"_", Digits[i + 1]>> \o DotCsv

\* a data line as the family writes it
DataLine(sangvor, r) ==
    IF sangvor THEN r[1] \o <<";">> \o r[2]
    ELSE <<"1", ",">> \o r[1] \o <<",">> \o r[2]

\* a file of a family that holds its header only: the family's header
\* length, one line short when short is set
NewFile(sangvor, i, short) ==
    [path    |-> FilePath(sangvor, i),
     nheader |-> (IF sangvor THEN 22 ELSE 12) - (IF short THEN 1 ELSE 0),
     rows    |-> << >>]

RECURSIVE TotalRows(_)
TotalRows(group) ==
    IF group = << >> THEN 0 ELSE Len(Head(group).rows) + TotalRows(Tail(group))

(***************************************************************************)
(* Paths (pathlib.Path): the text of a path with "/" between its parts.    *)
(***************************************************************************)
\* the characters of the model's texts in the order of their code points
CodeOrder ==
    <<" ", "-", ".", "/">> \o Digits \o <<";", "<">> \o UpperLetters \o <<"_">> \o LowerLetters

CodeRank == [c \in {CodeOrder[i] : i \in 1..Len(CodeOrder)} |->
                CHOOSE i \in 1..Len(CodeOrder) : CodeOrder[i] = c]

RECURSIVE TextLess(_, _)
\* a < b for str
TextLess(a, b) ==
    IF b = << >> THEN FALSE
    ELSE IF a = << >> THEN TRUE
    ELSE IF Head(a) # Head(b) THEN CodeRank[Head(a)] < CodeRank[Head(b)]
    ELSE TextLess(Tail(a), Tail(b))

RECURSIVE PartsLess(_, _)
\* a < b for lists of str
PartsLess(a, b) ==
    IF b = << >> THEN FALSE
    ELSE IF a = << >> THEN TRUE
    ELSE IF Head(a) # Head(b) THEN TextLess(Head(a), Head(b))
    ELSE PartsLess(Tail(a), Tail(b))

\* Path.parts of a relative path
PathParts(path) == Split(path, "/")

\* a < b for Path: the parts are compared, not the text
PathLess(a, b) == PartsLess(PathParts(a), PathParts(b))

\* Path.name
PathName(path) == PathParts(path)[Len(PathParts(path))]

\* name without its last suffix; a dot that leads or ends the name starts no suffix
StemOf(name, dots) ==
    IF dots = {} \/ MaxOf(dots) = 1 \/ MaxOf(dots) = Len(name) THEN name
    ELSE Slice(name, 1, MaxOf(dots) - 1)

\* Path.stem
PathStem(path) == StemOf(PathName(path), Positions(PathName(path), "."))

\* Path.parent.parent.name: empty when the path has fewer than three parts
GrandparentName(path) ==
    IF Len(PathParts(path)) >= 3 THEN PathParts(path)[Len(PathParts(path)) - 2] ELSE << >>

RECURSIVE InsertPath(_, _)
InsertPath(sorted, x) ==
    IF sorted = << >> THEN <<x>>
    ELSE IF PathLess(x, Head(sorted)) THEN <<x>> \o sorted
    ELSE <<Head(sorted)>> \o InsertPath(Tail(sorted), x)

RECURSIVE SortPaths(_)
\* list.sort() / sorted() on paths
SortPaths(paths) ==
    IF paths = << >> THEN << >>
    ELSE InsertPath(SortPaths(SubSeq(paths, 1, Len(paths) - 1)), paths[Len(paths)])

RECURSIVE SetToSeq(_)
\* the paths rglob yields, in some order
SetToSeq(S) ==
    IF S = {} THEN << >>
    ELSE <<CHOOSE x \in S : TRUE>> \o SetToSeq(S \ {CHOOSE x \in S : TRUE})

find_csv_files(on_disk) == SortPaths(SetToSeq(on_disk))

(***************************************************************************)
(* group_files_by_logger_id.  The dictionary grouped is the list of its    *)
(* items [logger_id, files] in insertion order.                            *)
(***************************************************************************)
S_metadata == <<"m", "e", "t", "a", "d", "a", "t", "a">>

S_meta_csv == <<"m", "e", "t", "a", ".", "c", "s", "v">>

\* the test that skips metadata files
IsMetadataFile(csv_file) ==
    Contains(csv_file, S_metadata) \/ EndsWith(PathName(csv_file), S_meta_csv)

\* the fallback with a directory name of three characters accepted
FallbackIdAtLeast3(csv_file, logger_id) ==
    IF logger_id = << >> \/ Len(logger_id) < 3
    THEN IF GrandparentName(csv_file) # << >> /\ Len(GrandparentName(csv_file)) >= 3
         THEN GrandparentName(csv_file)
         ELSE logger_id
    ELSE logger_id

\* the fanmountains branch: the directory two levels up replaces a short id
FallbackId(csv_file, logger_id) ==
    IF logger_id = << >> \/ Len(logger_id) < 3
    THEN IF GrandparentName(csv_file) # << >> /\ Len(GrandparentName(csv_file)) > 3
         THEN GrandparentName(csv_file)
         ELSE logger_id
    ELSE logger_id

\* the logger id the loop body extracts for a file
ExtractLoggerId(csv_file) ==
    IF IsSangvorPath(csv_file)
    THEN SplitFirst(PathStem(csv_file), "_")
    ELSE FallbackId(csv_file, SplitFirst(PathStem(csv_file), "_"))

\* an assignment in place of the append: the group keeps its newest file only
GroupAssign(grouped, logger_id, csv_file) ==
    IF \E k \in 1..Len(grouped) : grouped[k].logger_id = logger_id
    THEN [k \in 1..Len(grouped) |->
             IF grouped[k].logger_id = logger_id
             THEN [grouped[k] EXCEPT !.files = <<csv_file>>]
             ELSE grouped[k]]
    ELSE Append(grouped, [logger_id |-> logger_id, files |-> <<csv_file>>])

\* grouped[logger_id].append(csv_file), with a new entry for a new logger_id
GroupAppend(grouped, logger_id, csv_file) ==
    IF \E k \in 1..Len(grouped) : grouped[k].logger_id = logger_id
    THEN [k \in 1..Len(grouped) |->
             IF grouped[k].logger_id = logger_id
             THEN [grouped[k] EXCEPT !.files = Append(@, csv_file)]
             ELSE grouped[k]]
    ELSE Append(grouped, [logger_id |-> logger_id, files |-> <<csv_file>>])

\* one pass of the loop over csv_files
GroupFile(grouped, csv_file, logger_id) ==
    IF logger_id # << >> THEN GroupAppend(grouped, logger_id, csv_file) ELSE grouped

RECURSIVE GroupLoop(_, _)
GroupLoop(grouped, csv_files) ==
    IF csv_files = << >> THEN grouped
    ELSE IF IsMetadataFile(Head(csv_files)) THEN GroupLoop(grouped, Tail(csv_files))
    ELSE GroupLoop(GroupFile(grouped, Head(csv_files), ExtractLoggerId(Head(csv_files))),
                   Tail(csv_files))

\* the loop that sorts the files of every group
SortGroups(grouped) ==
    [k \in 1..Len(grouped) |-> [grouped[k] EXCEPT !.files = SortPaths(@)]]

group_files_by_logger_id(csv_files) == SortGroups(GroupLoop(<< >>, csv_files))

(***************************************************************************)
(* The inputs of the grouper.                                              *)
(***************************************************************************)
MaxCsvFiles == 3

P_sangvor == <<"d", "a", "t", "a", "/", "s", "a", "n", "g", "v", "o", "r", "/", "2", "0", "0", "5", "-", "0", "0", "7", "0", "_", "2", "0", "2", "2", "0", "9", "0", "7", "_", "0", "3", "3", "2", ".", "c", "s", "v">>

P_fan == <<"d", "a", "t", "a", "/", "f", "a", "n", "m", "o", "u", "n", "t", "a", "i", "n", "s", "/", "A", "5", "3", "8", "D", "8", "_", "2", "0", "2", "2", "0", "9", "1", "6", "0", "8", "4", "2", "4", "4", ".", "c", "s", "v">>

\* a short name under logger_id/raw/
P_raw == <<"A", "5", "3", "8", "D", "8", "/", "r", "a", "w", "/", "a", "b", "_", "1", ".", "c", "s", "v">>

\* a short name under a directory of three characters
P_raw3 == <<"A", "5", "3", "/", "r", "a", "w", "/", "a", "b", "_", "2", ".", "c", "s", "v">>

\* a short name in a sangvor directory
P_sangvor_short == <<"B", "7", "7", "2", "1", "/", "S", "a", "n", "g", "v", "o", "r", "/", "a", "b", "_", "3", ".", "c", "s", "v">>

\* no id in the name and none in the directory
P_noid == <<"x", "/", "r", "a", "w", "/", "_", "1", ".", "c", "s", "v">>

\* no id in the name, one in the directory
P_dirid == <<"C", "9", "0", "0", "0", "/", "r", "a", "w", "/", "_", "2", ".", "c", "s", "v">>

P_metadata == <<"d", "a", "t", "a", "/", "m", "e", "t", "a", "d", "a", "t", "a", "/", "s", "i", "t", "e", "s", "_", "1", ".", "c", "s", "v">>

P_legacy == <<"d", "a", "t", "a", "/", "f", "a", "n", "_", "l", "o", "g", "g", "e", "r", "s", "_", "m", "e", "t", "a", ".", "c", "s", "v">>

CsvPaths ==
    {P_sangvor, P_fan, P_raw, P_raw3, P_sangvor_short, P_noid, P_dirid, P_metadata, P_legacy}

(***************************************************************************)
(* Metadata tables.  A table is [fieldnames, rows] as csv.DictReader reads *)
(* it: the column names of the header, and the rows, each a dictionary     *)
(* from the column names to the field texts, None for a field the line     *)
(* was too short to hold.                                                  *)
(***************************************************************************)
None == <<"None">>

\* bool(v) for a text or None
Truthy(v) == v # None /\ v # << >>

\* row.get(key)
Get(row, key) == IF key \in DOMAIN row THEN row[key] ELSE None

\* row.get(key, "")
GetOrEmpty(row, key) == IF key \in DOMAIN row THEN row[key] ELSE << >>

\* a or b or ""
FirstTruthy(a, b) == IF Truthy(a) THEN a ELSE IF Truthy(b) THEN b ELSE << >>

\* d[key] = value
Put(d, key, value) == [x \in DOMAIN d \cup {key} |-> IF x = key THEN value ELSE d[x]]

\* a.update(b)
Update(a, b) == [x \in DOMAIN a \cup DOMAIN b |-> IF x \in DOMAIN b THEN b[x] ELSE a[x]]

EmptyDict == << >>

BLE == "BLE-ID/Geoprecision"

(***************************************************************************)
(* plot_ground_temperature.load_metadata / load_all_metadata: a dictionary *)
(* from the stripped ID to the row.  None has no strip(): the exception    *)
(* ends the loop over the rows and the rows stored so far are returned.    *)
(***************************************************************************)
\* one pass of the loop over the rows; acc is [metadata, failed]
PlotRow(acc, row, id_field) ==
    IF acc.failed THEN acc
    ELSE IF id_field = None THEN [acc EXCEPT !.failed = TRUE]
    ELSE IF Strip(id_field) # << >>
    THEN [acc EXCEPT !.metadata = Put(@, Strip(id_field), row)]
    ELSE acc

RECURSIVE PlotRows(_, _)
PlotRows(acc, rows) ==
    IF rows = << >> THEN acc
    ELSE PlotRows(PlotRow(acc, Head(rows), GetOrEmpty(Head(rows), "ID")), Tail(rows))

plot_load_metadata(table) ==
    PlotRows([metadata |-> EmptyDict, failed |-> FALSE], table.rows).metadata

RECURSIVE plot_load_all_metadata(_, _)
\* the loop over the tables in the order they are loaded
plot_load_all_metadata(all_metadata, tables) ==
    IF tables = << >> THEN all_metadata
    ELSE plot_load_all_metadata(Update(all_metadata, plot_load_metadata(Head(tables))),
                                Tail(tables))

(***************************************************************************)
(* interactive_map.load_metadata / load_all_metadata: the list of the      *)
(* normalised rows that have an identifier and valid coordinates.          *)
(***************************************************************************)
\* the BLE-ID/Geoprecision column is present and not empty
UsesBle(row) == BLE \in DOMAIN row /\ Truthy(row[BLE])

\* logger_id as the if / elif chain leaves it
MapLoggerId(row) ==
    IF UsesBle(row) THEN Strip(row[BLE])
    ELSE IF Truthy(Get(row, "ID")) THEN Strip(Get(row, "ID"))
    ELSE << >>

\* row["WP_ID"] = row["ID"] when the BLE column names the logger
WithWaypoint(row) ==
    IF UsesBle(row) /\ Truthy(Get(row, "ID")) THEN Put(row, "WP_ID", row["ID"]) ELSE row

\* normalized_row["ELE"] = row["Altitude"] when there is no ELE
WithElevation(normalized_row, row) ==
    IF "Altitude" \in DOMAIN row /\ ~Truthy(Get(row, "ELE"))
    THEN Put(normalized_row, "ELE", row["Altitude"])
    ELSE normalized_row

\* the range test with the bounds of the longitude used for the latitude
CoordinatesInLonRange(lat, lon) ==
    FloatInRange(lat, -180, 180) /\ FloatInRange(lon, -180, 180)

\* -90 <= lat <= 90 and -180 <= lon <= 180
CoordinatesInRange(lat, lon) == FloatInRange(lat, -90, 90) /\ FloatInRange(lon, -180, 180)

\* the try block: both conversions, the range test, the normalised row
MapNormalise(row, logger_id, lat, lon) ==
    IF ~lat.ok \/ ~lon.ok THEN << >>
    ELSE IF CoordinatesInRange(lat.val, lon.val)
    THEN <<WithElevation(Put(Put(Put(row, "ID", logger_id), "LAT", lat.val), "LON", lon.val),
                         row)>>
    ELSE << >>

\* the test on the identifier and on the presence of both coordinates
MapKeep(row, logger_id, lat_val, lon_val) ==
    IF Truthy(lat_val) /\ Truthy(lon_val) /\ logger_id # << >> /\ logger_id # <<"-">>
    THEN MapNormalise(row, logger_id, ParseFloat(lat_val), ParseFloat(lon_val))
    ELSE << >>

\* one pass of the loop over the rows: the rows to append, one or none
MapRow(row) ==
    MapKeep(WithWaypoint(row), MapLoggerId(row),
            FirstTruthy(Get(row, "LAT"), Get(row, "Y")),
            FirstTruthy(Get(row, "LON"), Get(row, "X")))

RECURSIVE MapRows(_)
MapRows(rows) ==
    IF rows = << >> THEN << >> ELSE MapRow(Head(rows)) \o MapRows(Tail(rows))

map_load_metadata(table) == MapRows(table.rows)

RECURSIVE map_load_all_metadata(_)
\* the loop over the tables in the order they are loaded
map_load_all_metadata(tables) ==
    IF tables = << >> THEN << >>
    ELSE map_load_metadata(Head(tables)) \o map_load_all_metadata(Tail(tables))

(***************************************************************************)
(* The inputs of the metadata loaders.                                     *)
(***************************************************************************)
MaxTables == 2

MaxMetaRows == 2

FanRecord(id, lat, lon) == [ID |-> id, LAT |-> lat, LON |-> lon]

SangvorRecord(ble, id, y, x) ==
    (BLE :> ble) @@ [ID |-> id, Y |-> y, X |-> x, Altitude |-> <<"3", "2", "0", "0">>]

Id_A == <<"A", "5", "3", "8", "D", "8">>

Id_X1 == <<"X", "1">>

Id_WP5 == <<"W", "P", "5">>

Id_Dash == <<"-">>

Lat_Ok == <<"3", "9", ".", "1">>

Lat_Edge == <<"-", "9", "0">>

Lat_91 == <<"9", "1">>

Lat_Text == <<"a", "b", "c">>

Lat_NaN == <<"n", "a", "n">>

Lon_Ok == <<"6", "8", ".", "2">>

Lon_Edge == <<"1", "8", "0", ".", "0">>

Lon_181 == <<"1", "8", "1">>

\* rows of a table with the columns ID, LAT, LON
FanMetaRows ==
    { FanRecord(Id_A, Lat_Ok, Lon_Ok),
      FanRecord(Id_A, Lat_Edge, Lon_Edge),
      FanRecord(Id_Dash, Lat_Ok, Lon_Ok),
      FanRecord(Id_A, Lat_91, Lon_Ok),
      FanRecord(Id_X1, Lat_Text, Lon_Ok),
      FanRecord(Id_X1, Lat_Ok, Lon_181),
      FanRecord(Id_X1, Lat_NaN, Lon_Ok),
      FanRecord(None, Lat_Ok, Lon_Ok) }

\* rows of a table with the columns BLE-ID/Geoprecision, ID, Y, X, Altitude
SangvorMetaRows ==
    { SangvorRecord(Id_X1, Id_WP5, Lat_Ok, Lon_Ok),
      SangvorRecord(Id_X1, << >>, Lat_Edge, Lon_Edge),
      SangvorRecord(Id_X1, Id_Dash, Lat_Ok, Lon_Ok),
      SangvorRecord(<<" ">>, Id_WP5, Lat_Ok, Lon_Ok),
      SangvorRecord(<< >>, Id_A, Lat_Ok, Lon_Ok) }

FanColumns == {"ID", "LAT", "LON"}

SangvorColumns == {BLE, "ID", "Y", "X", "Altitude"}

\* the rows a table with these columns may hold
RowsWith(fieldnames) == IF BLE \in fieldnames THEN SangvorMetaRows ELSE FanMetaRows

RECURSIVE TotalMetaRows(_)
TotalMetaRows(tables) ==
    IF tables = << >> THEN 0 ELSE Len(Head(tables).rows) + TotalMetaRows(Tail(tables))

(***************************************************************************)
(* apply_time_offset_sangvor.parse_offset.  The pattern is the list of its *)
(* items, each optional: a group (\d+)unit or a run of whitespace.         *)
(***************************************************************************)
Group(unit) == [kind |-> "group", unit |-> unit, optional |-> TRUE]

Spaces == [kind |-> "space", unit |-> << >>, optional |-> TRUE]

\* (?:(\d+)d)?\s*(?:(\d+)h)?\s*(?:(\d+)min)?\s*(?:(\d+)sec)?
OffsetPattern ==
    << Group(<<"d">>), Spaces, Group(<<"h">>), Spaces,
       Group(<<"m", "i", "n">>), Spaces, Group(<<"s", "e", "c">>) >>

RECURSIVE RunLength(_, _, _)
\* the number of characters from pos on that are all in the set chars
RunLength(s, pos, chars) ==
    IF pos > Len(s) \/ s[pos] \notin chars THEN 0 ELSE 1 + RunLength(s, pos + 1, chars)

\* (\d+)unit at pos: n digits, n >= 1, and the unit after them
GroupMatches(s, pos, n, unit) ==
    n >= 1 /\ Slice(s, pos + n, Min(Len(s), pos + n + Len(unit) - 1)) = unit

\* one item of the pattern matched at m.pos; m is [ok, pos, groups]
MatchItem(m, item, s, n) ==
    IF ~m.ok THEN m
    ELSE IF item.kind = "space"
    THEN [m EXCEPT !.pos = @ + RunLength(s, m.pos, {" ", "\t", "\n", "\r"})]
    ELSE IF GroupMatches(s, m.pos, n, item.unit)
    THEN [ok |-> TRUE, pos |-> m.pos + n + Len(item.unit),
          groups |-> Append(m.groups, Slice(s, m.pos, m.pos + n - 1))]
    ELSE IF item.optional THEN [m EXCEPT !.groups = Append(@, None)]
    ELSE [m EXCEPT !.ok = FALSE]

RECURSIVE MatchItems(_, _, _)
MatchItems(m, items, s) ==
    IF items = << >> THEN m
    ELSE MatchItems(MatchItem(m, Head(items), s, RunLength(s, m.pos, DigitSet)),
                    Tail(items), s)

\* re.match(pattern, s): anchored at the start, not at the end
ReMatch(pattern, s) == MatchItems([ok |-> TRUE, pos |-> 1, groups |-> << >>], pattern, s)

\* int(x) if x else 0
IntOrZero(x) == IF Truthy(x) THEN DigitsValue(x) ELSE 0

\* timedelta(days, hours, minutes, seconds), kept as days and seconds of the day
Timedelta(days, hours, minutes, seconds) ==
    [days    |-> days + ((hours * 60 + minutes) * 60 + seconds) \div 86400,
     seconds |-> ((hours * 60 + minutes) * 60 + seconds) % 86400]

\* what parse_offset does with the match: raise, or build the timedelta
OffsetOf(match) ==
    IF ~match.ok THEN [raised |-> TRUE, delta |-> Timedelta(0, 0, 0, 0)]
    ELSE [raised |-> FALSE,
          delta  |-> Timedelta(IntOrZero(match.groups[1]), IntOrZero(match.groups[2]),
                               IntOrZero(match.groups[3]), IntOrZero(match.groups[4]))]

parse_offset(offset_str) == OffsetOf(ReMatch(OffsetPattern, RemoveChar(offset_str, " ")))

(***************************************************************************)
(* The inputs of parse_offset: texts made of at most MaxPieces pieces.     *)
(***************************************************************************)
MaxPieces == 3

OffsetPieces ==
    { <<"1", "d">>, <<"2", "h">>, <<"2", "9", "m", "i", "n">>, <<"5", "s", "e", "c">>,
      <<"a", "b", "c">>, <<" ">>, <<"3">> }

(***************************************************************************)
(* apply_time_offset_sangvor.process_file: lines 1..SKIP_LINES are copied, *)
(* every later line with a semicolon whose first field strptime accepts is *)
(* written with the shifted timestamp, every other line as it is.  Lines   *)
(* are kept without their terminator.                                      *)
(***************************************************************************)
SKIP_LINES == 22

OverflowError == [ok |-> FALSE]

RECURSIVE AddDays(_, _)
\* the datetime n days later (n >= 0): month by month; no date follows year 9999
AddDays(dt, n) ==
    IF dt.day + n <= DaysInMonth(dt.year, dt.month)
    THEN [ok |-> TRUE, dt |-> [dt EXCEPT !.day = @ + n]]
    ELSE IF dt.year = 9999 /\ dt.month = 12 THEN OverflowError
    ELSE AddDays([dt EXCEPT !.day = 1,
                            !.month = IF dt.month = 12 THEN 1 ELSE dt.month + 1,
                            !.year = IF dt.month = 12 THEN dt.year + 1 ELSE dt.year],
                 n - (DaysInMonth(dt.year, dt.month) - dt.day + 1))

\* the time of day of a number of seconds below 86400
AtSecond(dt, secs) ==
    [dt EXCEPT !.hour = secs \div 3600, !.minute = (secs % 3600) \div 60, !.second = secs % 60]

\* dt + offset for an offset of days and seconds that are not negative
AddTimedelta(dt, offset) ==
    AddDays(AtSecond(dt, (TimeKey(dt) + offset.seconds) % 86400),
            offset.days + ((TimeKey(dt) + offset.seconds) \div 86400))

Pad2(n) == <<Digits[(n \div 10) + 1], Digits[(n % 10) + 1]>>

Pad4(n) ==
    <<Digits[(n \div 1000) + 1], Digits[((n \div 100) % 10) + 1],
      Digits[((n \div 10) % 10) + 1], Digits[(n % 10) + 1]>>

\* dt.strftime(DATE_FORMAT), for a year of four digits
Strftime(dt) ==
    Pad2(dt.day) \o <<".">> \o Pad2(dt.month) \o <<".">> \o Pad4(dt.year) \o <<" ">>
        \o Pad2(dt.hour) \o <<":">> \o Pad2(dt.minute) \o <<":">> \o Pad2(dt.second)

RECURSIVE Join(_, _)
\* sep.join(parts)
Join(parts, sep) ==
    IF parts = << >> THEN << >>
    ELSE IF Len(parts) = 1 THEN parts[1]
    ELSE parts[1] \o <<sep>> \o Join(Tail(parts), sep)

\* the line written once dt + offset is known: the exception leaves the line
ShiftWrite(line, parts, dt_shifted) ==
    IF ~dt_shifted.ok THEN line
    ELSE Strftime(dt_shifted.dt) \o <<";">> \o Join(Tail(parts), ";")

ShiftTimestamp(line, parts, dt, offset) ==
    IF ~dt.ok THEN line ELSE ShiftWrite(line, parts, AddTimedelta(dt.dt, offset))

ShiftParts(line, parts, offset) ==
    IF Len(parts) < 2 THEN line
    ELSE ShiftTimestamp(line, parts, Strptime(Strip(parts[1])), offset)

\* the line written for a line below the header
ShiftLine(line, offset) ==
    IF line = << >> \/ Positions(line, ";") = {} THEN line
    ELSE ShiftParts(line, Split(line, ";"), offset)

\* the loop with i < SKIP_LINES as its header test
ProcessFileBelowSkip(file, offset) ==
    [file EXCEPT !.rows =
        [i \in 1..Len(file.rows) |->
            IF file.nheader + i < SKIP_LINES THEN file.rows[i]
            ELSE ShiftLine(file.rows[i], offset)]]

\* the lines of the _offset file written for the file
process_file(file, offset) ==
    [file EXCEPT !.rows =
        [i \in 1..Len(file.rows) |->
            IF file.nheader + i <= SKIP_LINES THEN file.rows[i]
            ELSE ShiftLine(file.rows[i], offset)]]

(***************************************************************************)
(* The inputs of process_file.                                             *)
(***************************************************************************)
MaxShiftLines == 2

TSYearEnd == <<"3", "1", ".", "1", "2", ".", "2", "0", "2", "0", " ", "2", "3", ":", "3", "0", ":", "0", "0">>

TSLeap == <<"2", "8", ".", "0", "2", ".", "2", "0", "2", "0", " ", "1", "2", ":", "0", "0", ":", "0", "0">>

TSLast == <<"3", "1", ".", "1", "2", ".", "9", "9", "9", "9", " ", "2", "3", ":", "0", "0", ":", "0", "0">>

TSUnpadded == <<"1", ".", "1", ".", "2", "0", "2", "0", " ", "0", ":", "0", ":", "0">>

ShiftLines ==
    { TS1 \o <<";">> \o TempA,
      TSYearEnd \o <<";">> \o TempB \o <<";", "x", " ", "y">>,
      TSLeap \o <<";">> \o TempA,
      TSLast \o <<";">> \o TempA,
      TSUnpadded \o <<";">> \o TempA,
      <<" ">> \o TS2 \o <<" ", ";", " ">> \o TempB,
      TSBad \o <<";">> \o TempA,
      <<"j", "u", "n", "k">>,
      << >> }

ShiftOffsets ==
    { <<"1", "d", " ", "2", "h">>,
      <<"4", "3", "8", "d", " ", "3", "h", " ", "2", "9", "m", "i", "n", " ", "2", "9", "s", "e", "c">>,
      <<"2", "3", "h", " ", "5", "9", "m", "i", "n", " ", "5", "9", "s", "e", "c">>,
      <<"0", "d">> }

(***************************************************************************)
(* plot_ground_temperature.infer_title.  The row metadata_dict.get gives   *)
(* is kept as the list of it, None as the empty list.                      *)
(***************************************************************************)
\* metadata_dict.get(logger_id)
DictGet(d, key) == IF key \in DOMAIN d THEN <<d[key]>> ELSE << >>

RECURSIVE IntText(_)
\* str(n) for n >= 0
IntText(n) ==
    IF n < 10 THEN <<Digits[n + 1]>> ELSE IntText(n \div 10) \o <<Digits[(n % 10) + 1]>>

S_Logger == <<"L", "o", "g", "g", "e", "r", " ">>

\* the waypoint text read from the WP column only
WaypointOfWP(metadata) == GetOrEmpty(metadata, "WP")

\* metadata.get("GARMIN WP") or metadata.get("WP", "")
Waypoint(metadata) ==
    IF Truthy(Get(metadata, "GARMIN WP")) THEN Get(metadata, "GARMIN WP")
    ELSE GetOrEmpty(metadata, "WP")

\* f"Logger {logger_id} (WP {garmin_wp})" if garmin_wp else f"Logger {logger_id}"
TitleWith(logger_id, garmin_wp) ==
    IF Truthy(garmin_wp)
    THEN S_Logger \o logger_id \o <<" ", "(", "W", "P", " ">> \o garmin_wp \o <<")">>
    ELSE S_Logger \o logger_id

\* title += f" ({len(file_group)} files)" if len(file_group) > 1
WithFileCount(title, n) ==
    IF n > 1 THEN title \o <<" ", "(">> \o IntText(n) \o <<" ", "f", "i", "l", "e", "s", ")">> ELSE title

\* the pair infer_title returns for the looked-up metadata
TitleOf(logger_id, file_group, metadata) ==
    IF metadata # << >> /\ DOMAIN metadata[1] # {}
    THEN [title    |-> WithFileCount(TitleWith(logger_id, Waypoint(metadata[1])),
                                     Len(file_group)),
          metadata |-> metadata]
    ELSE [title    |-> WithFileCount(S_Logger \o logger_id, Len(file_group)),
          metadata |-> << >>]

infer_title(logger_id, file_group, metadata_dict) ==
    TitleOf(logger_id, file_group, DictGet(metadata_dict, logger_id))

(***************************************************************************)
(* The inputs of infer_title: a metadata table of one row, loaded by       *)
(* load_metadata, and a group of up to MaxTitleFiles files.                *)
(***************************************************************************)
MaxTitleFiles == 3

WaypointRecord(id, garmin_wp, wp) == ("GARMIN WP" :> garmin_wp) @@ [ID |-> id, WP |-> wp]

WpRecord(id, wp) == [ID |-> id, WP |-> wp]

WaypointColumns == {"ID", "GARMIN WP", "WP"}

WpColumns == {"ID", "WP"}

WaypointRows ==
    { WaypointRecord(Id_A, <<"1", "2">>, <<"7">>),
      WaypointRecord(Id_A, << >>, <<"7">>),
      WaypointRecord(Id_A, << >>, << >>),
      WaypointRecord(Id_A, None, None),
      WaypointRecord(Id_A, <<" ">>, <<"7">>),
      WaypointRecord(SangvorLogger, <<"1", "2">>, << >>) }

WpRows ==
    { WpRecord(Id_A, <<"7">>), WpRecord(Id_A, None), WpRecord(SangvorLogger, << >>) }

TitleRowsWith(fieldnames) ==
    IF "GARMIN WP" \in fieldnames THEN WaypointRows
    ELSE IF "WP" \in fieldnames THEN WpRows
    ELSE {FanRecord(Id_A, Lat_Ok, Lon_Ok)}

TitleLoggers == {Id_A, SangvorLogger, Id_X1}

(***************************************************************************)
(* The plot files: run names the plot of a logger, and                     *)
(* interactive_map.find_plot_files maps logger ids to the PNG files of the *)
(* plots directory, which glob yields in an order of its own.              *)
(***************************************************************************)
S_combined == <<"_", "c", "o", "m", "b", "i", "n", "e", "d">>

S_combined_png == <<"_", "c", "o", "m", "b", "i", "n", "e", "d", ".", "p", "n", "g">>

\* plot_name = f"{logger_id}_combined.png"
PlotName(logger_id) == logger_id \o S_combined_png

RECURSIVE RemoveAll(_, _)
\* s.replace(sub, ""): every occurrence of sub, from the left, is taken out
RemoveAll(s, sub) ==
    IF Len(s) < Len(sub) THEN s
    ELSE IF SubSeq(s, 1, Len(sub)) = sub THEN RemoveAll(Slice(s, Len(sub) + 1, Len(s)), sub)
    ELSE <<Head(s)>> \o RemoveAll(Tail(s), sub)

\* the logger id find_plot_files reads from the name of a PNG file
PlotLoggerId(name) ==
    IF Contains(name, S_combined_png)
    THEN RemoveAll(StemOf(name, Positions(name, ".")), S_combined)
    ELSE SplitFirst(StemOf(name, Positions(name, ".")), "_")

\* one pass of the loop over the PNG files
IndexFile(plot_files, logger_id, png_file) ==
    IF logger_id \notin DOMAIN plot_files THEN Put(plot_files, logger_id, png_file)
    ELSE IF Contains(png_file, S_combined) THEN Put(plot_files, logger_id, png_file)
    ELSE plot_files

RECURSIVE IndexLoop(_, _)
IndexLoop(plot_files, png_files) ==
    IF png_files = << >> THEN plot_files
    ELSE IndexLoop(IndexFile(plot_files, PlotLoggerId(Head(png_files)), Head(png_files)),
                   Tail(png_files))

\* find_plot_files on a directory whose PNG files glob yields in this order
find_plot_files(png_files) == IndexLoop(EmptyDict, png_files)

\* the orders in which a directory listing may yield the names
Listings(names) ==
    {order \in [1..Cardinality(names) -> names] :
        \A i, j \in 1..Cardinality(names) : i # j => order[i] # order[j]}

(***************************************************************************)
(* The inputs of find_plot_files: plots of the logger ids the grouper      *)
(* gives for the model's paths and for a file under a directory named      *)
(* site_combined, and PNG files of the old naming.                         *)
(***************************************************************************)
MaxPlots == 3

P_site_combined == <<"s", "i", "t", "e", "_", "c", "o", "m", "b", "i", "n", "e", "d", "/", "r", "a", "w", "/", "_", "3", ".", "c", "s", "v">>

GroupedIds ==
    {ExtractLoggerId(path) : path \in {p \in CsvPaths \cup {P_site_combined} : ~IsMetadataFile(p)}}
        \ {<< >>}

OldPlots ==
    { <<"A", "5", "3", "8", "D", "8", "_", "2", "0", "2", "2", "0", "9", "1", "6", "0", "8", "4", "2", "4", "4", ".", "p", "n", "g">>,
      <<"2", "0", "0", "5", "-", "0", "0", "7", "0", "_", "2", "0", "2", "2", "0", "9", "0", "7", "_", "0", "3", "3", "2", ".", "p", "n", "g">>,
      <<"a", "b", "_", "1", ".", "p", "n", "g">> }

(***************************************************************************)
(* The map pipeline: interactive_map.main runs the plotting run, loads the *)
(* metadata, indexes the plots and creates the map.  An exception that     *)
(* the plotting run raises is named by its class, "None" when it returned. *)
(***************************************************************************)
\* a handler that catches nothing
ExceptNothing(exc) == FALSE

\* the classes that "except Exception" catches
ExceptException(exc) == exc \in {"ValueError", "OSError", "KeyError"}

\* what run_plotting may end with
PlottingOutcomes == {"None", "ValueError", "OSError"}

RECURSIVE DiscoverMetadata(_)
\* the loop over potential_data_roots: the first existing root whose
\* load_all_metadata is non-empty ends the loop
DiscoverMetadata(roots) ==
    IF roots = << >> THEN << >>
    ELSE IF Head(roots).exists /\ map_load_all_metadata(Head(roots).tables) # << >>
    THEN map_load_all_metadata(Head(roots).tables)
    ELSE DiscoverMetadata(Tail(roots))

\* step 2 of main: the --metadata file when it exists, else the discovery
MainMetadataOf(given, table, roots) ==
    IF given THEN map_load_metadata(table) ELSE DiscoverMetadata(roots)

\* "if not metadata" of main
NoMetadata(metadata) == metadata = << >>

RECURSIVE Markers(_, _)
\* the loop of create_interactive_map over the rows: one marker a row, with
\* the plot file the index holds for the row's ID
Markers(metadata, index) ==
    IF metadata = << >> THEN << >>
    ELSE <<[ID |-> Head(metadata).ID, plot |-> DictGet(index, Head(metadata).ID)]>>
            \o Markers(Tail(metadata), index)

\* create_interactive_map: the saved map, none when the metadata is empty
create_interactive_map(metadata, index) ==
    IF metadata = << >>
    THEN [saved |-> << >>, errors |-> <<"No metadata available to create map">>]
    ELSE [saved |-> <<Markers(metadata, index)>>, errors |-> << >>]

(***************************************************************************)
(* The inputs of the pipeline: the plots a plotting run leaves, and the    *)
(* four candidate data roots, of which one holds the metadata tables.      *)
(***************************************************************************)
MaxRunPlots == 1

PlotRuns == {ids \in SUBSET GroupedIds : Cardinality(ids) <= MaxRunPlots}

\* the metadata tables on the disk: none, one of one row, or two of one row
PipeTables(fieldnames, first, second, n) ==
    SubSeq(<<[fieldnames |-> fieldnames, rows |-> <<first>>],
             [fieldnames |-> fieldnames, rows |-> <<second>>]>>, 1, n)

DataRoots(tables, place, others_exist) ==
    [i \in 1..4 |-> IF i = place THEN [exists |-> TRUE, tables |-> tables]
                     ELSE [exists |-> others_exist, tables |-> << >>]]

(***************************************************************************)
(* run of plot_ground_temperature: the files under the data root are       *)
(* listed and grouped, and every group is parsed, merged, titled and       *)
(* plotted in turn.  The disk is a set of files with distinct paths.       *)
(***************************************************************************)
\* the file a path names
FileAt(disk, path) == CHOOSE f \in disk : f.path = path

FilesAt(disk, paths) == [i \in 1..Len(paths) |-> FileAt(disk, paths[i])]

\* concatenate_timeseries after the loop over the files: extend, sort, deduplicate
MergeParsed(results) ==
    SortAndDeduplicate(ExtendAll(NoSamples, results).timestamps,
                       ExtendAll(NoSamples, results).temperatures)

\* a guard that lets every group through
AlwaysData(timestamps) == FALSE

\* "if not timestamps" of run
NoData(timestamps) == timestamps = << >>

\* build_plot: the figure is saved unless there are no data points
build_plot(dir, times, output_path) ==
    IF times = << >> THEN dir ELSE dir \cup {output_path}

\* metadata_dict of run: the given file when it exists, else load_all_metadata
RunMetadata(given, tables) ==
    IF given THEN plot_load_metadata(tables[1])
    ELSE plot_load_all_metadata(EmptyDict, tables)

(***************************************************************************)
(* The inputs of run: files of five paths, each with no line, a valid      *)
(* line, a line of an impossible date or two valid lines.                  *)
(***************************************************************************)
MaxRunFiles == 3

RunPaths == {P_sangvor, P_fan, P_raw, P_dirid, P_noid}

RunContents(sangvor) ==
    { << >>,
      <<DataLine(sangvor, <<TS1, TempA>>)>>,
      <<DataLine(sangvor, <<TSBad, TempB>>)>>,
      <<DataLine(sangvor, <<TS2, TempB>>), DataLine(sangvor, <<TS1, TempA>>)>> }

RunFile(path, rows) ==
    [path |-> path, nheader |-> IF IsSangvorPath(path) THEN 22 ELSE 12, rows |-> rows]

\* the metadata tables under the data root: none or one of one row
RunTables(row, n) == SubSeq(<<[fieldnames |-> WpColumns, rows |-> <<row>>]>>, 1, n)

(***************************************************************************)
(* The inputs of the parsers: one logger file of either family, written    *)
(* line by line with data lines, blank lines, lines of too few fields and  *)
(* header or metadata rows that carry a timestamp and a temperature.       *)
(***************************************************************************)
MaxLines == 2

NoFile == [path |-> << >>, nheader |-> 0, rows |-> << >>]

SangvorLines ==
    {DataLine(TRUE, r) : r \in DataRows} \cup
    { << >>,
      <<"j", "u", "n", "k">>,
      TS1,
      TS1 \o <<";", "5", ".", "0", ";", "x">>,
      <<" ", " ">> \o TS2 \o <<" ", ";", " ", "5", ".", "0", " ">>,
      <<";">> }

FanLines ==
    {DataLine(FALSE, r) : r \in DataRows} \cup
    { << >>,
      <<"<", "T", "I", "M", "E", ">", ",">> \o TS1 \o <<",", "5", ".", "0">>,
      <<"N", "O", ",">> \o TS1 \o <<",", "5", ".", "0">>,
      <<"n", "o", ",">> \o TS2 \o <<",", "5", ".", "0">>,
      <<" ", "N", "o", " ", ",">> \o TS3 \o <<",", "-", "3", ".", "2">>,
      <<"1", ",">> \o TS1,
      <<",">> \o TS1 \o <<",", "5", ".", "0">> }

LinesOf(sangvor) == IF sangvor THEN SangvorLines ELSE FanLines

(***************************************************************************)
(* State.                                                                  *)
(***************************************************************************)
VARIABLES
    file_group,        \* the files of one logger, in the order they are merged
    merge_pc,          \* "files", "merged", "remerged"
    parsed,            \* what parse_logger_file returned for each file
    all_timestamps,    \* concatenate_timeseries: the concatenated timestamps
    all_temperatures,  \* concatenate_timeseries: the concatenated temperatures
    timestamps,        \* concatenate_timeseries: the returned timestamps
    temperatures,      \* concatenate_timeseries: the returned temperatures
    on_disk,           \* the paths of the CSV files under the data root
    group_pc,          \* "disk", "found", "grouped"
    csv_files,         \* run: what find_csv_files returned
    grouped,           \* run: what group_files_by_logger_id returned
    meta_tables,       \* the metadata tables in the order they are loaded
    plot_loaded,       \* plot_ground_temperature.load_all_metadata has returned
    all_metadata,      \* its result: logger id -> row
    map_loaded,        \* interactive_map.load_all_metadata has returned
    map_metadata,      \* its result: the list of normalised rows
    offset_str,        \* the text given as --offset
    offset_pc,         \* "input", "parsed"
    offset_result,     \* what parse_offset did: [raised, delta]
    logger_file,       \* the logger file given to parse_logger_file
    parse_pc,          \* "absent", "lines", "parsed"
    file_samples,      \* what parse_logger_file returned
    shift_file,        \* the sangvor file given to process_file
    shift_offset,      \* the offset main got from parse_offset
    shift_pc,          \* "absent", "lines", "written"
    shift_output,      \* the _offset file process_file wrote
    title_dict,        \* the metadata_dict given to infer_title
    title_group,       \* the file_group given to infer_title
    title_logger_id,   \* the logger_id given to infer_title
    title_pc,          \* "start", "loaded", "titled"
    title_result,      \* what infer_title returned: [title, metadata]
    plots_dir,         \* the names of the PNG files in the plots directory
    index_pc,          \* "plots", "found"
    plot_files,        \* what find_plot_files returned: logger id -> file
    pipe_pc,           \* "start", "metadata", "index", "map", "done", "returned", "raised"
    pipe_log,          \* the steps main has announced, in order
    pipe_errors,       \* the errors main and create_interactive_map have logged
    pipe_plotting,     \* how run_plotting ended: "None" or the exception class
    pipe_metadata,     \* the metadata main holds after step 2
    output_map,        \* << >>, or <<markers>> once the map is saved
    run_disk,          \* the CSV files under the data root
    run_pc,            \* "disk", "parse", "merge", "title", "render", "returned"
    run_csv_files,     \* csv_files of run
    run_dict,          \* metadata_dict of run
    run_grouped,       \* grouped_files of run
    run_k,             \* the position of the loop in grouped_files
    run_parsed,        \* what the files of the current group parsed to
    run_series,        \* the merged series of the current group
    run_title,         \* what infer_title returned for the current group
    run_log,           \* the steps taken: [logger_id, step]
    run_warnings,      \* the logger ids reported as having no data
    run_plots          \* the calls of build_plot: [logger_id, output_path, points, title]

merge_vars ==
    <<file_group, merge_pc, parsed, all_timestamps, all_temperatures,
      timestamps, temperatures>>

group_vars == <<on_disk, group_pc, csv_files, grouped>>

meta_vars == <<meta_tables, plot_loaded, all_metadata, map_loaded, map_metadata>>

offset_vars == <<offset_str, offset_pc, offset_result>>

parse_vars == <<logger_file, parse_pc, file_samples>>

shift_vars == <<shift_file, shift_offset, shift_pc, shift_output>>

title_vars == <<title_dict, title_group, title_logger_id, title_pc, title_result>>

index_vars == <<plots_dir, index_pc, plot_files>>

pipe_vars == <<pipe_pc, pipe_log, pipe_errors, pipe_plotting, pipe_metadata, output_map>>

run_vars ==
    <<run_disk, run_pc, run_csv_files, run_dict, run_grouped, run_k, run_parsed,
      run_series, run_title, run_log, run_warnings, run_plots>>

later_vars == <<parse_vars, shift_vars, title_vars, index_vars, pipe_vars, run_vars>>

base_vars == <<merge_vars, group_vars, meta_vars, offset_vars>>

not_parse_vars == <<base_vars, shift_vars, title_vars, index_vars, pipe_vars, run_vars>>

not_shift_vars == <<base_vars, parse_vars, title_vars, index_vars, pipe_vars, run_vars>>

not_title_vars == <<base_vars, parse_vars, shift_vars, index_vars, pipe_vars, run_vars>>

not_index_vars == <<base_vars, parse_vars, shift_vars, title_vars, pipe_vars, run_vars>>

\* what the pipeline leaves alone besides the plots directory and its index
not_pipe_vars == <<base_vars, parse_vars, shift_vars, title_vars, index_pc, run_vars>>

\* what run leaves alone besides the plots directory
not_run_vars == <<base_vars, parse_vars, shift_vars, title_vars, index_pc, plot_files, pipe_vars>>

vars == <<merge_vars, group_vars, meta_vars, offset_vars, later_vars>>

Init ==
    /\ file_group = << >>
    /\ merge_pc = "files"
    /\ parsed = << >>
    /\ all_timestamps = << >>
    /\ all_temperatures = << >>
    /\ timestamps = << >>
    /\ temperatures = << >>
    /\ on_disk = {}
    /\ group_pc = "disk"
    /\ csv_files = << >>
    /\ grouped = << >>
    /\ meta_tables = << >>
    /\ plot_loaded = FALSE
    /\ all_metadata = EmptyDict
    /\ map_loaded = FALSE
    /\ map_metadata = << >>
    /\ offset_str = << >>
    /\ offset_pc = "input"
    /\ offset_result = [raised |-> FALSE, delta |-> Timedelta(0, 0, 0, 0)]
    /\ logger_file = NoFile
    /\ parse_pc = "absent"
    /\ file_samples = NoSamples
    /\ shift_file = NoFile
    /\ shift_offset = Timedelta(0, 0, 0, 0)
    /\ shift_pc = "absent"
    /\ shift_output = NoFile
    /\ title_dict = EmptyDict
    /\ title_group = << >>
    /\ title_logger_id = << >>
    /\ title_pc = "start"
    /\ title_result = [title |-> << >>, metadata |-> << >>]
    /\ plots_dir = {}
    /\ index_pc = "plots"
    /\ plot_files = EmptyDict
    /\ pipe_pc = "start"
    /\ pipe_log = << >>
    /\ pipe_errors = << >>
    /\ pipe_plotting = "None"
    /\ pipe_metadata = << >>
    /\ output_map = << >>
    /\ run_disk = {}
    /\ run_pc = "disk"
    /\ run_csv_files = << >>
    /\ run_dict = EmptyDict
    /\ run_grouped = << >>
    /\ run_k = 1
    /\ run_parsed = << >>
    /\ run_series = NoSamples
    /\ run_title = [title |-> << >>, metadata |-> << >>]
    /\ run_log = << >>
    /\ run_warnings = << >>
    /\ run_plots = << >>

(***************************************************************************)
(* The logger exports on disk: a further file of the logger once the       *)
(* newest one holds data, a further line in the newest file.  The files    *)
(* of a group are of one family.                                           *)
(***************************************************************************)
AddFile ==
    /\ merge_pc = "files"
    /\ Len(file_group) < MaxFiles
    /\ file_group # << >> => file_group[Len(file_group)].rows # << >>
    /\ \E sangvor \in BOOLEAN, short \in BOOLEAN :
          /\ file_group # << >> =>
                /\ sangvor = IsSangvorPath(file_group[1].path)
                /\ ~short
          /\ file_group' = Append(file_group, NewFile(sangvor, Len(file_group) + 1, short))
    /\ UNCHANGED <<merge_pc, parsed, all_timestamps, all_temperatures,
                   timestamps, temperatures>>
    /\ UNCHANGED <<group_vars, meta_vars, offset_vars, later_vars>>

WriteLine ==
    /\ merge_pc = "files"
    /\ file_group # << >>
    /\ TotalRows(file_group) < MaxRows
    /\ \E r \in DataRows :
          file_group' =
              [file_group EXCEPT ![Len(file_group)].rows =
                  Append(@, DataLine(IsSangvorPath(file_group[Len(file_group)].path), r))]
    /\ UNCHANGED <<merge_pc, parsed, all_timestamps, all_temperatures,
                   timestamps, temperatures>>
    /\ UNCHANGED <<group_vars, meta_vars, offset_vars, later_vars>>

(***************************************************************************)
(* concatenate_timeseries(file_group)                                      *)
(***************************************************************************)
concatenate_timeseries ==
    /\ merge_pc = "files"
    /\ parsed' = ParseGroup(file_group)
    /\ all_timestamps' = ExtendAll(NoSamples, parsed').timestamps
    /\ all_temperatures' = ExtendAll(NoSamples, parsed').temperatures
    /\ timestamps' = SortAndDeduplicate(all_timestamps', all_temperatures').timestamps
    /\ temperatures' = SortAndDeduplicate(all_timestamps', all_temperatures').temperatures
    /\ merge_pc' = "merged"
    /\ UNCHANGED file_group
    /\ UNCHANGED <<group_vars, meta_vars, offset_vars, later_vars>>

\* the sort-and-deduplicate step run again on a merged series
Remerge ==
    /\ merge_pc = "merged"
    /\ timestamps' = SortAndDeduplicate(timestamps, temperatures).timestamps
    /\ temperatures' = SortAndDeduplicate(timestamps, temperatures).temperatures
    /\ merge_pc' = "remerged"
    /\ UNCHANGED <<file_group, parsed, all_timestamps, all_temperatures>>
    /\ UNCHANGED <<group_vars, meta_vars, offset_vars, later_vars>>

Next ==
    \/ AddFile
    \/ WriteLine
    \/ concatenate_timeseries
    \/ Remerge

Spec == Init /\ [][Next]_vars

(***************************************************************************)
(* The grouper: CSV files appear under the data root, find_csv_files       *)
(* lists them, group_files_by_logger_id groups the list.                   *)
(***************************************************************************)
CreateCsv ==
    /\ group_pc = "disk"
    /\ Cardinality(on_disk) < MaxCsvFiles
    /\ \E path \in CsvPaths \ on_disk : on_disk' = on_disk \cup {path}
    /\ UNCHANGED <<group_pc, csv_files, grouped>>
    /\ UNCHANGED <<merge_vars, meta_vars, offset_vars, later_vars>>

FindCsvFiles ==
    /\ group_pc = "disk"
    /\ csv_files' = find_csv_files(on_disk)
    /\ group_pc' = "found"
    /\ UNCHANGED <<on_disk, grouped>>
    /\ UNCHANGED <<merge_vars, meta_vars, offset_vars, later_vars>>

GroupFiles ==
    /\ group_pc = "found"
    /\ grouped' = group_files_by_logger_id(csv_files)
    /\ group_pc' = "grouped"
    /\ UNCHANGED <<on_disk, csv_files>>
    /\ UNCHANGED <<merge_vars, meta_vars, offset_vars, later_vars>>

GroupNext ==
    \/ CreateCsv
    \/ FindCsvFiles
    \/ GroupFiles

SpecGroup == Init /\ [][GroupNext]_vars

(***************************************************************************)
(* The metadata loaders: tables and rows are written, then either script   *)
(* loads all of them.                                                      *)
(***************************************************************************)
AddTable ==
    /\ ~plot_loaded /\ ~map_loaded
    /\ Len(meta_tables) < MaxTables
    /\ meta_tables # << >> => meta_tables[Len(meta_tables)].rows # << >>
    /\ \E fieldnames \in {FanColumns, SangvorColumns} :
          meta_tables' = Append(meta_tables, [fieldnames |-> fieldnames, rows |-> << >>])
    /\ UNCHANGED <<plot_loaded, all_metadata, map_loaded, map_metadata>>
    /\ UNCHANGED <<merge_vars, group_vars, offset_vars, later_vars>>

AddMetaRow ==
    /\ ~plot_loaded /\ ~map_loaded
    /\ meta_tables # << >>
    /\ TotalMetaRows(meta_tables) < MaxMetaRows
    /\ \E row \in RowsWith(meta_tables[Len(meta_tables)].fieldnames) :
          meta_tables' = [meta_tables EXCEPT ![Len(meta_tables)].rows = Append(@, row)]
    /\ UNCHANGED <<plot_loaded, all_metadata, map_loaded, map_metadata>>
    /\ UNCHANGED <<merge_vars, group_vars, offset_vars, later_vars>>

PlotLoadAllMetadata ==
    /\ ~plot_loaded
    /\ all_metadata' = plot_load_all_metadata(EmptyDict, meta_tables)
    /\ plot_loaded' = TRUE
    /\ UNCHANGED <<meta_tables, map_loaded, map_metadata>>
    /\ UNCHANGED <<merge_vars, group_vars, offset_vars, later_vars>>

MapLoadAllMetadata ==
    /\ ~map_loaded
    /\ map_metadata' = map_load_all_metadata(meta_tables)
    /\ map_loaded' = TRUE
    /\ UNCHANGED <<meta_tables, plot_loaded, all_metadata>>
    /\ UNCHANGED <<merge_vars, group_vars, offset_vars, later_vars>>

MetaNext ==
    \/ AddTable
    \/ AddMetaRow
    \/ PlotLoadAllMetadata
    \/ MapLoadAllMetadata

SpecMeta == Init /\ [][MetaNext]_vars

(***************************************************************************)
(* The offset: the --offset text is typed piece by piece, then parsed.     *)
(***************************************************************************)
TypeOffset ==
    /\ offset_pc = "input"
    /\ \E k \in 1..MaxPieces : \E pieces \in [1..k -> OffsetPieces] :
          offset_str' = Concat(pieces)
    /\ offset_str = << >>
    /\ UNCHANGED <<offset_pc, offset_result>>
    /\ UNCHANGED <<merge_vars, group_vars, meta_vars, later_vars>>

ParseOffset ==
    /\ offset_pc = "input"
    /\ offset_result' = parse_offset(offset_str)
    /\ offset_pc' = "parsed"
    /\ UNCHANGED offset_str
    /\ UNCHANGED <<merge_vars, group_vars, meta_vars, later_vars>>

OffsetNext ==
    \/ TypeOffset
    \/ ParseOffset

SpecOffset == Init /\ [][OffsetNext]_vars

(***************************************************************************)
(* The parsers: a logger file is exported and filled line by line, then    *)
(* parse_logger_file reads it with the skip determine_skip_lines gives.    *)
(***************************************************************************)
ExportFile ==
    /\ parse_pc = "absent"
    /\ \E sangvor \in BOOLEAN, short \in BOOLEAN :
          logger_file' = NewFile(sangvor, 1, short)
    /\ parse_pc' = "lines"
    /\ UNCHANGED file_samples
    /\ UNCHANGED not_parse_vars

ExportLine ==
    /\ parse_pc = "lines"
    /\ Len(logger_file.rows) < MaxLines
    /\ \E line \in LinesOf(IsSangvorPath(logger_file.path)) :
          logger_file' = [logger_file EXCEPT !.rows = Append(@, line)]
    /\ UNCHANGED <<parse_pc, file_samples>>
    /\ UNCHANGED not_parse_vars

ParseLoggerFile ==
    /\ parse_pc = "lines"
    /\ file_samples' = parse_logger_file(logger_file, determine_skip_lines(logger_file))
    /\ parse_pc' = "parsed"
    /\ UNCHANGED logger_file
    /\ UNCHANGED not_parse_vars

ParseNext ==
    \/ ExportFile
    \/ ExportLine
    \/ ParseLoggerFile

SpecParse == Init /\ [][ParseNext]_vars

(***************************************************************************)
(* The offset rewriter: main parses --offset, a sangvor file is filled     *)
(* line by line, process_file writes its _offset file.                     *)
(***************************************************************************)
ShiftExport ==
    /\ shift_pc = "absent"
    /\ \E short \in BOOLEAN : shift_file' = NewFile(TRUE, 1, short)
    /\ \E text \in ShiftOffsets : shift_offset' = parse_offset(text).delta
    /\ shift_pc' = "lines"
    /\ UNCHANGED shift_output
    /\ UNCHANGED not_shift_vars

ShiftExportLine ==
    /\ shift_pc = "lines"
    /\ Len(shift_file.rows) < MaxShiftLines
    /\ \E line \in ShiftLines :
          shift_file' = [shift_file EXCEPT !.rows = Append(@, line)]
    /\ UNCHANGED <<shift_offset, shift_pc, shift_output>>
    /\ UNCHANGED not_shift_vars

ProcessFile ==
    /\ shift_pc = "lines"
    /\ shift_output' = process_file(shift_file, shift_offset)
    /\ shift_pc' = "written"
    /\ UNCHANGED <<shift_file, shift_offset>>
    /\ UNCHANGED not_shift_vars

ShiftNext ==
    \/ ShiftExport
    \/ ShiftExportLine
    \/ ProcessFile

SpecShift == Init /\ [][ShiftNext]_vars

(***************************************************************************)
(* The title: a metadata table is loaded, the group of a logger gets its   *)
(* files, infer_title is called for a logger id.                           *)
(***************************************************************************)
TitleLoadMetadata ==
    /\ title_pc = "start"
    /\ \E fieldnames \in {FanColumns, WaypointColumns, WpColumns} :
          \E row \in TitleRowsWith(fieldnames) :
              title_dict' = plot_load_metadata([fieldnames |-> fieldnames, rows |-> <<row>>])
    /\ title_pc' = "loaded"
    /\ UNCHANGED <<title_group, title_logger_id, title_result>>
    /\ UNCHANGED not_title_vars

TitleGroupFile ==
    /\ title_pc \in {"start", "loaded"}
    /\ Len(title_group) < MaxTitleFiles
    /\ title_group' = Append(title_group, FilePath(FALSE, Len(title_group) + 1))
    /\ UNCHANGED <<title_dict, title_logger_id, title_pc, title_result>>
    /\ UNCHANGED not_title_vars

InferTitle ==
    /\ title_pc \in {"start", "loaded"}
    /\ title_group # << >>
    /\ \E logger_id \in TitleLoggers :
          /\ title_logger_id' = logger_id
          /\ title_result' = infer_title(logger_id, title_group, title_dict)
    /\ title_pc' = "titled"
    /\ UNCHANGED <<title_dict, title_group>>
    /\ UNCHANGED not_title_vars

TitleNext ==
    \/ TitleLoadMetadata
    \/ TitleGroupFile
    \/ InferTitle

SpecTitle == Init /\ [][TitleNext]_vars

(***************************************************************************)
(* The plot index: the plotting run writes the plot of a logger, a plot    *)
(* of the old naming lies in the directory, find_plot_files indexes it.    *)
(***************************************************************************)
WritePlot ==
    /\ index_pc = "plots"
    /\ Cardinality(plots_dir) < MaxPlots
    /\ \E logger_id \in GroupedIds :
          /\ PlotName(logger_id) \notin plots_dir
          /\ plots_dir' = plots_dir \cup {PlotName(logger_id)}
    /\ UNCHANGED <<index_pc, plot_files>>
    /\ UNCHANGED not_index_vars

KeepOldPlot ==
    /\ index_pc = "plots"
    /\ Cardinality(plots_dir) < MaxPlots
    /\ \E name \in OldPlots \ plots_dir : plots_dir' = plots_dir \cup {name}
    /\ UNCHANGED <<index_pc, plot_files>>
    /\ UNCHANGED not_index_vars

FindPlotFiles ==
    /\ index_pc = "plots"
    /\ \E png_files \in Listings(plots_dir) : plot_files' = find_plot_files(png_files)
    /\ index_pc' = "found"
    /\ UNCHANGED plots_dir
    /\ UNCHANGED not_index_vars

IndexNext ==
    \/ WritePlot
    \/ KeepOldPlot
    \/ FindPlotFiles

SpecIndex == Init /\ [][IndexNext]_vars

(***************************************************************************)
(* The map pipeline: main runs its four steps; step 2 finds the metadata   *)
(* tables that lie on the disk.                                            *)
(***************************************************************************)
\* step 1: run_plotting inside try/except
MainPlots ==
    /\ pipe_pc = "start"
    /\ \E exc \in PlottingOutcomes, ids \in PlotRuns :
          /\ plots_dir' = plots_dir \cup {PlotName(logger_id) : logger_id \in ids}
          /\ pipe_plotting' = exc
          /\ pipe_errors' = IF exc # "None" /\ ExceptException(exc)
                            THEN Append(pipe_errors, "Failed to generate plots")
                            ELSE pipe_errors
          /\ pipe_pc' = IF exc = "None" THEN "metadata"
                        ELSE IF ExceptException(exc) THEN "returned"
                        ELSE "raised"
    /\ pipe_log' = Append(pipe_log, "plots")
    /\ UNCHANGED <<plot_files, pipe_metadata, output_map>>
    /\ UNCHANGED not_pipe_vars

\* step 2: the --metadata file or the discovery, then "if not metadata"
MainMetadata ==
    /\ pipe_pc = "metadata"
    /\ \E fieldnames \in {FanColumns, SangvorColumns} :
          \E first \in RowsWith(fieldnames), second \in RowsWith(fieldnames), n \in 0..2 :
             meta_tables' = PipeTables(fieldnames, first, second, n)
    /\ \E given \in {g \in BOOLEAN : g => meta_tables' # << >>},
          place \in 0..4, others_exist \in BOOLEAN :
          pipe_metadata' =
              MainMetadataOf(given,
                             IF meta_tables' = << >> THEN [fieldnames |-> << >>, rows |-> << >>]
                             ELSE meta_tables'[1],
                             DataRoots(meta_tables', place, others_exist))
    /\ pipe_log' = Append(pipe_log, "metadata")
    /\ pipe_errors' = IF NoMetadata(pipe_metadata')
                      THEN Append(pipe_errors, "No valid metadata found")
                      ELSE pipe_errors
    /\ pipe_pc' = IF NoMetadata(pipe_metadata') THEN "returned" ELSE "index"
    /\ UNCHANGED <<plots_dir, plot_files, pipe_plotting, output_map>>
    /\ UNCHANGED <<plot_loaded, all_metadata, map_loaded, map_metadata>>
    /\ UNCHANGED <<merge_vars, group_vars, offset_vars, parse_vars, shift_vars, title_vars, index_pc>>
    /\ UNCHANGED run_vars

\* step 3: find_plot_files
MainFindPlotFiles ==
    /\ pipe_pc = "index"
    /\ \E png_files \in Listings(plots_dir) : plot_files' = find_plot_files(png_files)
    /\ pipe_log' = Append(pipe_log, "plot index")
    /\ pipe_pc' = "map"
    /\ UNCHANGED <<plots_dir, pipe_errors, pipe_plotting, pipe_metadata, output_map>>
    /\ UNCHANGED not_pipe_vars

\* step 4: create_interactive_map
MainCreateMap ==
    /\ pipe_pc = "map"
    /\ output_map' = create_interactive_map(pipe_metadata, plot_files).saved
    /\ pipe_errors' = pipe_errors \o create_interactive_map(pipe_metadata, plot_files).errors
    /\ pipe_log' = Append(pipe_log, "map")
    /\ pipe_pc' = "done"
    /\ UNCHANGED <<plots_dir, plot_files, pipe_plotting, pipe_metadata>>
    /\ UNCHANGED not_pipe_vars

PipeNext ==
    \/ MainPlots
    \/ MainMetadata
    \/ MainFindPlotFiles
    \/ MainCreateMap

SpecPipe == Init /\ [][PipeNext]_vars

(***************************************************************************)
(* The plotting run: files are exported under the data root, run lists     *)
(* and groups them, then takes the groups one after the other.             *)
(***************************************************************************)
RunCreateFile ==
    /\ run_pc = "disk"
    /\ Cardinality(run_disk) < MaxRunFiles
    /\ \E path \in RunPaths \ {f.path : f \in run_disk} :
          \E rows \in RunContents(IsSangvorPath(path)) :
             run_disk' = run_disk \cup {RunFile(path, rows)}
    /\ UNCHANGED <<run_pc, run_csv_files, run_dict, run_grouped, run_k, run_parsed,
                   run_series, run_title, run_log, run_warnings, run_plots>>
    /\ UNCHANGED <<plots_dir, not_run_vars>>

\* run up to the loop: find_csv_files, the metadata, the grouping
RunStart ==
    /\ run_pc = "disk"
    /\ run_csv_files' = find_csv_files({f.path : f \in run_disk})
    /\ IF run_csv_files' = << >>
       THEN /\ run_pc' = "returned"
            /\ UNCHANGED <<run_dict, run_grouped>>
       ELSE /\ \E row \in WpRows, n \in 0..1, given \in BOOLEAN :
                  /\ given => n = 1
                  /\ run_dict' = RunMetadata(given, RunTables(row, n))
            /\ run_grouped' = group_files_by_logger_id(run_csv_files')
            /\ run_pc' = IF run_grouped' = << >> THEN "returned" ELSE "parse"
    /\ UNCHANGED <<run_disk, run_k, run_parsed, run_series, run_title, run_log,
                   run_warnings, run_plots>>
    /\ UNCHANGED <<plots_dir, not_run_vars>>

\* concatenate_timeseries, the loop over the files of the group
RunParse ==
    /\ run_pc = "parse"
    /\ run_parsed' = ParseGroup(FilesAt(run_disk, run_grouped[run_k].files))
    /\ run_log' = Append(run_log, [logger_id |-> run_grouped[run_k].logger_id, step |-> "parse"])
    /\ run_pc' = "merge"
    /\ UNCHANGED <<run_disk, run_csv_files, run_dict, run_grouped, run_k, run_series,
                   run_title, run_warnings, run_plots>>
    /\ UNCHANGED <<plots_dir, not_run_vars>>

\* concatenate_timeseries, the merge, and "if not timestamps: continue"
RunMerge ==
    /\ run_pc = "merge"
    /\ run_series' = MergeParsed(run_parsed)
    /\ run_log' = Append(run_log, [logger_id |-> run_grouped[run_k].logger_id, step |-> "merge"])
    /\ IF NoData(run_series'.timestamps)
       THEN /\ run_warnings' = Append(run_warnings, run_grouped[run_k].logger_id)
            /\ run_k' = run_k + 1
            /\ run_pc' = IF run_k = Len(run_grouped) THEN "returned" ELSE "parse"
       ELSE /\ run_pc' = "title"
            /\ UNCHANGED <<run_warnings, run_k>>
    /\ UNCHANGED <<run_disk, run_csv_files, run_dict, run_grouped, run_parsed,
                   run_title, run_plots>>
    /\ UNCHANGED <<plots_dir, not_run_vars>>

RunTitle ==
    /\ run_pc = "title"
    /\ run_title' = infer_title(run_grouped[run_k].logger_id, run_grouped[run_k].files, run_dict)
    /\ run_log' = Append(run_log, [logger_id |-> run_grouped[run_k].logger_id, step |-> "title"])
    /\ run_pc' = "render"
    /\ UNCHANGED <<run_disk, run_csv_files, run_dict, run_grouped, run_k, run_parsed,
                   run_series, run_warnings, run_plots>>
    /\ UNCHANGED <<plots_dir, not_run_vars>>

\* build_plot at output_dir / f"{logger_id}_combined.png", then the next group
RunRender ==
    /\ run_pc = "render"
    /\ run_plots' = Append(run_plots,
                           [logger_id   |-> run_grouped[run_k].logger_id,
                            output_path |-> PlotName(run_grouped[run_k].logger_id),
                            points      |-> Len(run_series.timestamps),
                            title       |-> run_title.title])
    /\ plots_dir' = build_plot(plots_dir, run_series.timestamps,
                               PlotName(run_grouped[run_k].logger_id))
    /\ run_log' = Append(run_log, [logger_id |-> run_grouped[run_k].logger_id, step |-> "render"])
    /\ run_k' = run_k + 1
    /\ run_pc' = IF run_k = Len(run_grouped) THEN "returned" ELSE "parse"
    /\ UNCHANGED <<run_disk, run_csv_files, run_dict, run_grouped, run_parsed,
                   run_series, run_title, run_warnings>>
    /\ UNCHANGED not_run_vars

RunNext ==
    \/ RunCreateFile
    \/ RunStart
    \/ RunParse
    \/ RunMerge
    \/ RunTitle
    \/ RunRender

SpecRun == Init /\ [][RunNext]_vars

(***************************************************************************)
(* What the specification says a file holds: the samples of its fully      *)
(* valid data rows, in file order (sections 4.2 and 8).                    *)
(***************************************************************************)
\* the sample of a row given as its timestamp text and temperature text
PairOf(ts, temp) ==
    IF Strptime(Strip(ts)).ok /\ ParseFloat(Strip(temp)).ok
    THEN << <<Strptime(Strip(ts)).dt, ParseFloat(Strip(temp)).val>> >>
    ELSE << >>

\* the sample of one fanmountains row, or nothing
ValidFanRow(row) ==
    IF \/ Len(row) < 3
       \/ Strip(row[1]) = << >>
       \/ StartsWith(Strip(row[1]), <<"<">>)
       \/ Upper(Strip(row[1])) = <<"N", "O">>
    THEN << >>
    ELSE PairOf(row[2], row[3])

\* the sample of one sangvor line, or nothing
ValidSangvorLine(parts) ==
    IF Len(parts) < 2 THEN << >> ELSE PairOf(parts[1], parts[2])

ValidRow(file, i) ==
    IF file.nheader + i <= (IF IsSangvorPath(file.path) THEN 22 ELSE 12) THEN << >>
    ELSE IF IsSangvorPath(file.path) THEN ValidSangvorLine(Split(Strip(file.rows[i]), ";"))
    ELSE ValidFanRow(CsvRow(file.rows[i]))

RECURSIVE ValidSamplesFrom(_, _)
ValidSamplesFrom(file, i) ==
    IF i > Len(file.rows) THEN << >>
    ELSE ValidRow(file, i) \o ValidSamplesFrom(file, i + 1)

\* the (timestamp, temperature) pairs of the fully valid rows, in file order
ValidSamples(file) == ValidSamplesFrom(file, 1)

Merged == merge_pc \in {"merged", "remerged"}

(***************************************************************************)
(* Claims about the merge.                                                 *)
(***************************************************************************)
\* C1: the series returned by concatenate_timeseries is strictly increasing by
\* timestamp: every sample's timestamp is greater than its predecessor's, so no
\* two samples share a timestamp, whatever the order of the files and rows.
C1_StrictlyIncreasing ==
    Merged =>
        /\ Len(timestamps) = Len(temperatures)
        /\ \A i \in 1..(Len(timestamps) - 1) : DtLess(timestamps[i], timestamps[i + 1])

\* a merge of rows that arrive out of order and with a repeated timestamp
C1_Witness ==
    /\ merge_pc = "merged"
    /\ Len(timestamps) >= 2
    /\ Len(all_timestamps) > Len(timestamps)
    /\ \E i \in 1..(Len(all_timestamps) - 1) :
          DtLess(all_timestamps[i + 1], all_timestamps[i])

\* C2: the fanmountains parser skips a row whose timestamp or temperature does
\* not parse as a whole: the samples it returns are exactly the pairs of the
\* fully valid rows, in file order, each pair from one row.
C2_RowSkippedWhole ==
    Merged =>
        \A f \in 1..Len(file_group) :
            ~IsSangvorPath(file_group[f].path) =>
                Zip(parsed[f].timestamps, parsed[f].temperatures)
                    = ValidSamples(file_group[f])

\* the samples of the files in concatenation order as (file, index) positions
Positioned == {<<f, k>> \in (1..Len(parsed)) \X (1..MaxRows + 1) :
                  k <= Len(parsed[f].timestamps)}

Earlier(p, q) == p[1] < q[1] \/ (p[1] = q[1] /\ p[2] < q[2])

\* C3: of several samples with one timestamp the merge keeps the first in
\* concatenation order: the one of the earliest file of the group and, within
\* that file, of the earliest sample; the sort never lets a later one displace it.
C3_FirstSampleWins ==
    Merged =>
        \A i \in 1..Len(timestamps) :
            \E p \in Positioned :
                /\ parsed[p[1]].timestamps[p[2]] = timestamps[i]
                /\ parsed[p[1]].temperatures[p[2]] = temperatures[i]
                /\ \A q \in Positioned :
                      parsed[q[1]].timestamps[q[2]] = timestamps[i] => ~Earlier(q, p)

\* two samples of one timestamp and different temperatures meet in a merge,
\* the later one ahead of a sample with another timestamp
C3_Witness ==
    /\ merge_pc = "merged"
    /\ \E p, q \in Positioned :
          /\ Earlier(p, q)
          /\ parsed[p[1]].timestamps[p[2]] = parsed[q[1]].timestamps[q[2]]
          /\ parsed[p[1]].temperatures[p[2]] # parsed[q[1]].temperatures[q[2]]
    /\ Len(timestamps) >= 2

\* the timestamps of a list of samples
TimestampsOf(samples) == {samples[i][1] : i \in 1..Len(samples)}

\* C4: the merge yields exactly one sample for each distinct timestamp of a
\* valid row of any file of the group, none lost and none added, in ascending
\* order.
C4_ExactlyTheDistinctTimestamps ==
    Merged =>
        /\ {timestamps[i] : i \in 1..Len(timestamps)}
              = UNION {TimestampsOf(ValidSamples(file_group[f])) : f \in 1..Len(file_group)}
        /\ \A i \in 1..(Len(timestamps) - 1) : DtLess(timestamps[i], timestamps[i + 1])

\* C5: the sort-and-deduplicate step is idempotent: run again on a merged
\* series (sorted, free of duplicates) it returns the same samples in the same
\* order.
C5_MergeIdempotent ==
    [][merge_pc = "merged" /\ merge_pc' = "remerged"
          => timestamps' = timestamps /\ temperatures' = temperatures]_vars

\* the step has run again on a series of several samples
C5_Witness ==
    /\ merge_pc = "remerged"
    /\ Len(timestamps) >= 2
    /\ Len(all_timestamps) > Len(timestamps)

(***************************************************************************)
(* Claims about the grouper.                                               *)
(***************************************************************************)
\* the part of the file name's stem before the first underscore
Candidate(path) == SplitFirst(PathStem(path), "_")

\* the group, if any, that holds the file
GroupsOf(path) == {k \in 1..Len(grouped) : \E i \in 1..Len(grouped[k].files) :
                      grouped[k].files[i] = path}

\* the file is in the group of this id and in no other group
GroupedUnder(path, id) ==
    /\ GroupsOf(path) # {}
    /\ \A k \in GroupsOf(path) : grouped[k].logger_id = id

\* C6 as stated: every non-metadata file is grouped under the part of its
\* name before the first underscore, and under the name of its grandparent
\* directory whenever that part is empty or shorter than 3 characters,
\* whichever family its path indicates.
C6_AsStated ==
    group_pc = "grouped" =>
        \A path \in on_disk :
            ~IsMetadataFile(path) =>
                GroupedUnder(path, IF Len(Candidate(path)) < 3
                                   THEN GrandparentName(path)
                                   ELSE Candidate(path))

\* the id of the amended claim
AmendedLoggerId(path) ==
    IF /\ ~IsSangvorPath(path)
       /\ Len(Candidate(path)) < 3
       /\ Len(GrandparentName(path)) > 3
    THEN GrandparentName(path)
    ELSE Candidate(path)

\* C6 amended: the id of a non-metadata file is the part of its name's stem
\* before the first underscore, except that for a file whose path does not
\* contain "sangvor", when that part is shorter than 3 characters and the
\* grandparent directory name is longer than 3 characters, the id is the
\* grandparent directory name; a file whose id is empty is in no group.
C6_LoggerId ==
    group_pc = "grouped" =>
        \A path \in on_disk :
            IF IsMetadataFile(path) \/ AmendedLoggerId(path) = << >>
            THEN GroupsOf(path) = {}
            ELSE GroupedUnder(path, AmendedLoggerId(path))

\* a short name grouped under its directory with the long name of the same
\* logger, next to a short sangvor name that keeps its short id
C6_Witness ==
    /\ group_pc = "grouped"
    /\ on_disk = {P_fan, P_raw, P_sangvor_short}
    /\ GroupedUnder(P_raw, Id_A)
    /\ GroupedUnder(P_fan, Id_A)
    /\ GroupedUnder(P_sangvor_short, <<"a", "b">>)

(***************************************************************************)
(* Claims about the metadata loaders.                                      *)
(***************************************************************************)
\* the tables whose load by the plotting script defines the id
PlotDefining(id) ==
    {t \in 1..Len(meta_tables) : id \in DOMAIN plot_load_metadata(meta_tables[t])}

\* the ids that two tables define for the map script
MapSharedIds ==
    {id \in {map_metadata[i]["ID"] : i \in 1..Len(map_metadata)} :
        \E a, b \in 1..Len(meta_tables) :
            /\ a < b
            /\ \E i \in 1..Len(map_load_metadata(meta_tables[a])) :
                  map_load_metadata(meta_tables[a])[i]["ID"] = id
            /\ \E j \in 1..Len(map_load_metadata(meta_tables[b])) :
                  map_load_metadata(meta_tables[b])[j]["ID"] = id}

\* C7: when two of the loaded tables define one logger id, the result of
\* either script's load_all_metadata holds a single row for the id, the row of
\* the table loaded later.
C7_LaterTableWins ==
    /\ plot_loaded =>
          \A id \in DOMAIN all_metadata :
              all_metadata[id] = plot_load_metadata(meta_tables[MaxOf(PlotDefining(id))])[id]
    /\ map_loaded =>
          \A id \in MapSharedIds :
              Cardinality({i \in 1..Len(map_metadata) : map_metadata[i]["ID"] = id}) = 1

\* the identifier of a row as the specification resolves it: the
\* BLE-ID/Geoprecision column when it yields a non-empty identifier, else ID
TextOf(v) == IF v = None THEN << >> ELSE Strip(v)

PreferredIdentifier(row) ==
    IF TextOf(Get(row, BLE)) # << >> THEN TextOf(Get(row, BLE)) ELSE TextOf(Get(row, "ID"))

\* the row has coordinates the map loader accepts
ValidCoordinates(row) ==
    /\ ParseFloat(FirstTruthy(Get(row, "LAT"), Get(row, "Y"))).ok
    /\ ParseFloat(FirstTruthy(Get(row, "LON"), Get(row, "X"))).ok
    /\ FloatInRange(ParseFloat(FirstTruthy(Get(row, "LAT"), Get(row, "Y"))).val, -90, 90)
    /\ FloatInRange(ParseFloat(FirstTruthy(Get(row, "LON"), Get(row, "X"))).val, -180, 180)

\* the rows of all tables, in load order
RECURSIVE AllRows(_)
AllRows(tables) ==
    IF tables = << >> THEN << >> ELSE Head(tables).rows \o AllRows(Tail(tables))

\* C8: either loader stores a row under the BLE-ID/Geoprecision identifier
\* when that column yields a non-empty identifier and under ID otherwise, and
\* the map loader keeps the ID value of a row stored under its BLE identifier
\* as the waypoint.
C8_PreferredIdentifier ==
    /\ plot_loaded =>
          \A id \in DOMAIN all_metadata : id = PreferredIdentifier(all_metadata[id])
    /\ map_loaded =>
          \A k \in 1..Len(AllRows(meta_tables)) :
              LET row == AllRows(meta_tables)[k]
              IN  ValidCoordinates(row) /\ PreferredIdentifier(row) \notin {<< >>, <<"-">>}
                  => \E i \in 1..Len(map_metadata) :
                        /\ map_metadata[i]["ID"] = PreferredIdentifier(row)
                        /\ (UsesBle(row) /\ Truthy(Get(row, "ID"))
                               => /\ "WP_ID" \in DOMAIN map_metadata[i]
                                  /\ map_metadata[i]["WP_ID"] = row["ID"])

\* the identifier of a row: the BLE-ID/Geoprecision field, else the ID field
RowIdentifier(row) == Strip(FirstTruthy(Get(row, BLE), Get(row, "ID")))

\* the condition of C9 on a row
Qualifies(row) ==
    /\ RowIdentifier(row) # << >>
    /\ RowIdentifier(row) # <<"-">>
    /\ ValidCoordinates(row)

\* what C9 expects of a row: nothing, or its identifier and coordinates
Expected(row) ==
    IF Qualifies(row)
    THEN << [ID  |-> RowIdentifier(row),
             LAT |-> ParseFloat(FirstTruthy(Get(row, "LAT"), Get(row, "Y"))).val,
             LON |-> ParseFloat(FirstTruthy(Get(row, "LON"), Get(row, "X"))).val] >>
    ELSE << >>

RECURSIVE ExpectedRows(_)
ExpectedRows(rows) ==
    IF rows = << >> THEN << >> ELSE Expected(Head(rows)) \o ExpectedRows(Tail(rows))

\* C9: the map's loader retains a row only if its identifier is not empty and
\* not "-" and both coordinates (LAT, else Y; LON, else X) parse as numbers
\* with the latitude in [-90, 90] and the longitude in [-180, 180]; a dropped
\* row does not end the load: every row that meets the condition is retained,
\* in the order of the rows, whatever was dropped before it.
C9_RetainedRows ==
    map_loaded =>
        [i \in 1..Len(map_metadata) |->
            [ID  |-> map_metadata[i]["ID"],
             LAT |-> map_metadata[i]["LAT"],
             LON |-> map_metadata[i]["LON"]]]
          = ExpectedRows(AllRows(meta_tables))

\* a table whose first row is dropped (latitude 91) and whose second is kept
C9_Witness ==
    /\ map_loaded
    /\ Len(map_metadata) = 1
    /\ \E t \in 1..Len(meta_tables) :
          /\ Len(meta_tables[t].rows) = 2
          /\ meta_tables[t].rows[1] = FanRecord(Id_A, Lat_91, Lon_Ok)
          /\ Qualifies(meta_tables[t].rows[2])

(***************************************************************************)
(* Claims about the offset.                                                *)
(***************************************************************************)
\* a well-formed offset: without its spaces it is not empty and is, from its
\* first to its last character, groups of digits and a unit in the order
\* d, h, min, sec
WellFormedOffset(text) ==
    /\ RemoveChar(text, " ") # << >>
    /\ ReMatch(OffsetPattern, RemoveChar(text, " ")).pos = Len(RemoveChar(text, " ")) + 1

\* C10: parse_offset raises an error for every text that is not a well-formed
\* offset, and returns no duration for it.
C10_MalformedOffsetRaises ==
    offset_pc = "parsed" /\ ~WellFormedOffset(offset_str) => offset_result.raised

(***************************************************************************)
(* Claims about the parsers.                                               *)
(***************************************************************************)
Parsed == parse_pc = "parsed"

\* C12: in the sangvor parser every line after the header lines that holds a
\* valid date and a number, separated by a semicolon, yields exactly one sample
\* (timestamp, T); a line of fewer than 2 fields, an empty line or a line whose
\* date or number does not parse yields none, and the lines after it are parsed.
C12_SangvorSamples ==
    Parsed /\ IsSangvorPath(logger_file.path) =>
        /\ Len(file_samples.timestamps) = Len(file_samples.temperatures)
        /\ Zip(file_samples.timestamps, file_samples.temperatures) = ValidSamples(logger_file)

\* a sangvor file in which a line that yields nothing precedes a valid line
C12_Witness ==
    /\ Parsed
    /\ IsSangvorPath(logger_file.path)
    /\ file_samples.timestamps # << >>
    /\ \E i, j \in 1..Len(logger_file.rows) :
          /\ i < j
          /\ logger_file.nheader + i > 22
          /\ ValidRow(logger_file, i) = << >>
          /\ ValidRow(logger_file, j) # << >>

\* the first field of the row starts with "<" or is NO in any letter case
Excluded(row) ==
    /\ row # << >>
    /\ StartsWith(row[1], <<"<">>) \/ Upper(row[1]) = <<"N", "O">>

\* the file with every such row replaced by an empty line
Blanked(file) ==
    [file EXCEPT !.rows =
        [i \in 1..Len(file.rows) |->
            IF Excluded(CsvRow(file.rows[i])) THEN << >> ELSE file.rows[i]]]

\* C13: in the fanmountains parser a row whose first field starts with "<" or
\* equals NO in any letter case is excluded from the output whatever its other
\* fields hold: the parser returns what it returns for the file without the row.
C13_HeaderRowsExcluded ==
    Parsed /\ ~IsSangvorPath(logger_file.path) =>
        file_samples = parse_fanmountains_file(Blanked(logger_file), 12)

\* a fanmountains file with such a row below the header that carries a valid
\* timestamp and temperature, next to a data row that is parsed
C13_Witness ==
    /\ Parsed
    /\ ~IsSangvorPath(logger_file.path)
    /\ file_samples.timestamps # << >>
    /\ \E i \in 1..Len(logger_file.rows) :
          /\ logger_file.nheader + i > 12
          /\ Excluded(CsvRow(logger_file.rows[i]))
          /\ Len(CsvRow(logger_file.rows[i])) >= 3
          /\ PairOf(CsvRow(logger_file.rows[i])[2], CsvRow(logger_file.rows[i])[3]) # << >>

\* the path holds "sangvor" somewhere, in any letter case
MentionsSangvor(path) ==
    \E i \in 1..(Len(path) - 6) : Lower(SubSeq(path, i, i + 6)) = S_sangvor

\* C14: a file is treated as sangvor exactly when its path holds "sangvor" in
\* any letter case, and the header skip and the parser agree: in a merge such a
\* file is read by the semicolon parser with a skip of 22 lines and every other
\* file by the comma parser with a skip of 12 lines.
C14_FamilyAgrees ==
    Merged =>
        \A f \in 1..Len(file_group) :
            parsed[f] = IF MentionsSangvor(file_group[f].path)
                        THEN parse_sangvor_file(file_group[f], 22)
                        ELSE parse_fanmountains_file(file_group[f], 12)

\* a merge of a file under Sangvor/ whose line 22 holds data that the skip
\* leaves out, followed by a line that is parsed
C14_Witness ==
    /\ merge_pc = "merged"
    /\ \E f \in 1..Len(file_group) :
          /\ MentionsSangvor(file_group[f].path)
          /\ ~Contains(file_group[f].path, S_sangvor)
          /\ file_group[f].nheader = 21
          /\ Len(file_group[f].rows) >= 2
          /\ ValidSangvorLine(Split(Strip(file_group[f].rows[1]), ";")) # << >>
          /\ Len(parsed[f].timestamps) = Len(file_group[f].rows) - 1

(***************************************************************************)
(* Claims about the groups as a partition of the discovered files.         *)
(***************************************************************************)
\* the places (group, index) at which the groups hold the file
PlacesOf(path) ==
    {<<k, i>> \in (1..Len(grouped)) \X (1..MaxCsvFiles + 1) :
        i <= Len(grouped[k].files) /\ grouped[k].files[i] = path}

\* the path holds "metadata", or the file name ends with "meta.csv"
NamedAsMetadata(path) ==
    \/ \E i \in 1..(Len(path) - 7) : SubSeq(path, i, i + 7) = S_metadata
    \/ EndsWith(After(<<"/">> \o path, {MaxOf(Positions(<<"/">> \o path, "/"))}), S_meta_csv)

\* C18 as stated: no metadata file is in a group, and every other discovered
\* file is in exactly one group, exactly once.
C18_AsStated ==
    group_pc = "grouped" =>
        \A path \in on_disk :
            Cardinality(PlacesOf(path)) = IF NamedAsMetadata(path) THEN 0 ELSE 1

\* C18: no metadata file is in a group; every other discovered file whose
\* logger id is not empty is in exactly one group, exactly once, and a file
\* whose logger id is empty is in none; the groups hold no other file.
C18_Partition ==
    group_pc = "grouped" =>
        /\ \A path \in on_disk :
               Cardinality(PlacesOf(path)) =
                   IF NamedAsMetadata(path) \/ AmendedLoggerId(path) = << >> THEN 0 ELSE 1
        /\ \A k \in 1..Len(grouped) : \A i \in 1..Len(grouped[k].files) :
               grouped[k].files[i] \in on_disk

\* two files of one logger are grouped while a metadata file is on disk
C18_Witness ==
    /\ group_pc = "grouped"
    /\ \E k \in 1..Len(grouped) : Len(grouped[k].files) >= 2
    /\ \E path \in on_disk : NamedAsMetadata(path)

(***************************************************************************)
(* Claims about the offset rewriter.                                       *)
(***************************************************************************)
RECURSIVE DaysBeforeMonth(_, _)
DaysBeforeMonth(y, m) ==
    IF m = 1 THEN 0 ELSE DaysBeforeMonth(y, m - 1) + DaysInMonth(y, m - 1)

\* the number of the day, counted from 01.01.0001
Ordinal(dt) ==
    (dt.year - 1) * 365 + ((dt.year - 1) \div 4) - ((dt.year - 1) \div 100)
        + ((dt.year - 1) \div 400) + DaysBeforeMonth(dt.year, dt.month) + dt.day

\* b is a + offset
Advanced(a, b, offset) ==
    /\ Ordinal(b) = Ordinal(a) + offset.days + ((TimeKey(a) + offset.seconds) \div 86400)
    /\ TimeKey(b) = (TimeKey(a) + offset.seconds) % 86400

\* the text of the line before its first semicolon
StampOf(line) == SplitFirst(line, ";")

\* the line has a semicolon and a timestamp of the format before it
WellFormedLine(line) ==
    Positions(line, ";") # {} /\ Strptime(Strip(StampOf(line))).ok

\* out is the line with its timestamp advanced by the offset, in the format
\* DD.MM.YYYY HH:MM:SS, and the rest of the line untouched
Rewritten(line, out, offset) ==
    /\ Positions(out, ";") # {}
    /\ Len(StampOf(out)) = 19
    /\ Strptime(StampOf(out)).ok
    /\ Advanced(Strptime(Strip(StampOf(line))).dt, Strptime(StampOf(out)).dt, offset)
    /\ After(out, Positions(out, ";")) = After(line, Positions(line, ";"))

\* the shifted time does not pass the last day of year 9999
Representable(line, offset) ==
    Ordinal(Strptime(Strip(StampOf(line))).dt) + offset.days
        + ((TimeKey(Strptime(Strip(StampOf(line))).dt) + offset.seconds) \div 86400)
      <= 3652059

Written == shift_pc = "written"

\* C11 as stated: the first 22 lines are copied unchanged, every later
\* well-formed line is rewritten with its timestamp advanced by the offset and
\* the rest untouched, every later malformed line is passed through unchanged,
\* and the output has as many lines as the input.
C11_AsStated ==
    Written =>
        /\ Len(shift_output.rows) = Len(shift_file.rows)
        /\ shift_output.nheader = shift_file.nheader
        /\ \A i \in 1..Len(shift_file.rows) :
               IF shift_file.nheader + i <= 22
               THEN shift_output.rows[i] = shift_file.rows[i]
               ELSE IF WellFormedLine(shift_file.rows[i])
               THEN Rewritten(shift_file.rows[i], shift_output.rows[i], shift_offset)
               ELSE shift_output.rows[i] = shift_file.rows[i]

\* C11: as above, except that a later well-formed line whose shifted time
\* would lie after year 9999 is passed through unchanged.
C11_ShiftedLines ==
    Written =>
        /\ Len(shift_output.rows) = Len(shift_file.rows)
        /\ shift_output.nheader = shift_file.nheader
        /\ \A i \in 1..Len(shift_file.rows) :
               IF shift_file.nheader + i <= 22
               THEN shift_output.rows[i] = shift_file.rows[i]
               ELSE IF /\ WellFormedLine(shift_file.rows[i])
                       /\ Representable(shift_file.rows[i], shift_offset)
               THEN Rewritten(shift_file.rows[i], shift_output.rows[i], shift_offset)
               ELSE shift_output.rows[i] = shift_file.rows[i]

\* a file whose line 22 is a data line that is copied and whose line 23 is a
\* data line that is rewritten to another day
C11_Witness ==
    /\ Written
    /\ shift_file.nheader = 21
    /\ Len(shift_file.rows) = 2
    /\ WellFormedLine(shift_file.rows[1])
    /\ shift_output.rows[1] = shift_file.rows[1]
    /\ WellFormedLine(shift_file.rows[2])
    /\ shift_output.rows[2] # shift_file.rows[2]
    /\ shift_offset.days > 0

(***************************************************************************)
(* Claims about the title.                                                 *)
(***************************************************************************)
\* the field of the row is there and holds a text that is not empty
NonEmptyField(row, key) == key \in DOMAIN row /\ row[key] # None /\ row[key] # << >>

\* the logger has a metadata row with a non-empty GARMIN WP or WP field
HasWaypoint(dict, id) ==
    /\ id \in DOMAIN dict
    /\ NonEmptyField(dict[id], "GARMIN WP") \/ NonEmptyField(dict[id], "WP")

WaypointText(row) ==
    IF NonEmptyField(row, "GARMIN WP") THEN row["GARMIN WP"] ELSE row["WP"]

\* the decimal text of a number below 100
Decimal(n) ==
    CHOOSE t \in {<<a>> : a \in DigitSet} \cup {<<a, b>> : a \in DigitSet \ {"0"}, b \in DigitSet} :
        DigitsValue(t) = n

Titled == title_pc = "titled"

\* C15: the title is "Logger {id}", followed by " (WP {waypoint})" exactly when
\* the logger has a metadata row with a non-empty GARMIN WP or WP field,
\* followed by " ({n} files)" exactly when the group has more than one file;
\* the metadata row of the logger is returned with it, or none when the logger
\* has no row.
C15_Title ==
    Titled =>
        /\ title_result.title =
               <<"L", "o", "g", "g", "e", "r", " ">> \o title_logger_id
                 \o (IF HasWaypoint(title_dict, title_logger_id)
                     THEN <<" ", "(", "W", "P", " ">> \o WaypointText(title_dict[title_logger_id]) \o <<")">>
                     ELSE << >>)
                 \o (IF Len(title_group) > 1
                     THEN <<" ", "(">> \o Decimal(Len(title_group)) \o <<" ", "f", "i", "l", "e", "s", ")">>
                     ELSE << >>)
        /\ title_result.metadata =
               IF title_logger_id \in DOMAIN title_dict
               THEN <<title_dict[title_logger_id]>> ELSE << >>

\* a title with both parts: the waypoint comes from the WP field of a row whose
\* GARMIN WP field is empty, and the group has several files
C15_Witness ==
    /\ Titled
    /\ Len(title_group) > 1
    /\ HasWaypoint(title_dict, title_logger_id)
    /\ ~NonEmptyField(title_dict[title_logger_id], "GARMIN WP")
    /\ Len(title_result.title) > Len(title_logger_id) + 7

(***************************************************************************)
(* Claims about the plot index.                                            *)
(***************************************************************************)
\* C19: the plot name written by the plotting run round-trips through the
\* plot index: for every logger id the grouper can produce, find_plot_files
\* maps the id to {id}_combined.png once that file is in the plots directory,
\* whatever the order of the listing and whatever old-format PNGs lie there.
C19_PlotNameRoundTrip ==
    index_pc = "found" =>
        \A logger_id \in GroupedIds :
            logger_id \o <<"_", "c", "o", "m", "b", "i", "n", "e", "d", ".", "p", "n", "g">>
                    \in plots_dir =>
                /\ logger_id \in DOMAIN plot_files
                /\ plot_files[logger_id] =
                      logger_id \o <<"_", "c", "o", "m", "b", "i", "n", "e", "d", ".", "p", "n", "g">>

(***************************************************************************)
(* Claims about the map pipeline.                                          *)
(***************************************************************************)
PipelineSteps == <<"plots", "metadata", "plot index", "map">>

MainEnded == pipe_pc \in {"done", "returned", "raised"}

PlottingRaised == pipe_log # << >> /\ pipe_plotting # "None"

NoValidMetadata == Len(pipe_log) >= 2 /\ pipe_metadata = << >>

\* C16: main runs its steps in the order plots, metadata, plot index, map;
\* the map is written only after the plotting run returned without raising
\* and a non-empty metadata list was loaded; when plotting raises or no
\* valid metadata is found, main logs an error and returns, the map is not
\* written and nothing is raised.
C16_Pipeline ==
    /\ Len(pipe_log) <= 4
    /\ pipe_log = [i \in 1..Len(pipe_log) |-> PipelineSteps[i]]
    /\ output_map # << >> =>
          /\ pipe_log = PipelineSteps
          /\ pipe_plotting = "None"
          /\ pipe_metadata # << >>
          /\ \A i \in 1..Len(pipe_metadata) :
                \E t \in 1..Len(meta_tables) :
                   \E j \in 1..Len(meta_tables[t].rows) :
                      <<pipe_metadata[i]>> = MapRow(meta_tables[t].rows[j])
          /\ Len(output_map[1]) = Len(pipe_metadata)
    /\ PlottingRaised \/ NoValidMetadata =>
          /\ pipe_pc = "returned"
          /\ Len(pipe_errors) = 1
          /\ output_map = << >>
          /\ pipe_log = (IF PlottingRaised THEN <<"plots">> ELSE <<"plots", "metadata">>)

C16_Witness ==
    /\ pipe_pc = "done"
    /\ output_map # << >>
    /\ Len(pipe_metadata) = 2
    /\ plots_dir # {}

(***************************************************************************)
(* Claims about the plotting run.                                          *)
(***************************************************************************)
StepRank(step) ==
    IF step = "parse" THEN 1 ELSE IF step = "merge" THEN 2 ELSE IF step = "title" THEN 3 ELSE 4

\* some file of the group yields a valid row
YieldsRow(group) ==
    \E i \in 1..Len(group.files) :
        parse_logger_file(FileAt(run_disk, group.files[i]),
                          determine_skip_lines(FileAt(run_disk, group.files[i]))).timestamps # << >>

StepsOf(logger_id) == {i \in 1..Len(run_log) : run_log[i].logger_id = logger_id}

PlotsOf(logger_id) == {i \in 1..Len(run_plots) : run_plots[i].logger_id = logger_id}

\* the steps of the groups do not interleave, and follow the order of the groups
OneGroupAtATime ==
    /\ \A i, j \in 1..Len(run_log) :
          i < j /\ run_log[i].logger_id = run_log[j].logger_id =>
              /\ StepRank(run_log[i].step) < StepRank(run_log[j].step)
              /\ \A m \in i..j : run_log[m].logger_id = run_log[i].logger_id
    /\ \A i, j \in 1..Len(run_log) :
          i < j /\ run_log[i].logger_id # run_log[j].logger_id =>
              \E a, b \in 1..Len(run_grouped) :
                  /\ a < b
                  /\ run_grouped[a].logger_id = run_log[i].logger_id
                  /\ run_grouped[b].logger_id = run_log[j].logger_id
    /\ \A i \in 1..Len(run_log) :
          /\ run_log[i].step # "parse" =>
                /\ i > 1
                /\ run_log[i - 1].logger_id = run_log[i].logger_id
                /\ StepRank(run_log[i - 1].step) = StepRank(run_log[i].step) - 1
          /\ run_log[i].step = "parse" /\ i > 1 => run_log[i - 1].step \in {"merge", "render"}

\* C17: run takes the logger groups one at a time, finishing parse, merge,
\* title and render of a group before the next group starts; it calls
\* build_plot exactly once, at {logger_id}_combined.png, for every group
\* whose merged series is non-empty and not at all for a group whose files
\* yield no valid row; distinct logger ids get distinct output paths.
C17_GroupsInTurn ==
    /\ OneGroupAtATime
    /\ \A i \in 1..Len(run_plots) :
          /\ run_plots[i].output_path =
                run_plots[i].logger_id \o
                    <<"_", "c", "o", "m", "b", "i", "n", "e", "d", ".", "p", "n", "g">>
          /\ run_plots[i].points > 0
          /\ \E k \in 1..Len(run_grouped) :
                run_grouped[k].logger_id = run_plots[i].logger_id /\ YieldsRow(run_grouped[k])
    /\ \A i, j \in 1..Len(run_plots) :
          i # j => /\ run_plots[i].logger_id # run_plots[j].logger_id
                   /\ run_plots[i].output_path # run_plots[j].output_path
    /\ run_pc = "returned" =>
          \A k \in 1..Len(run_grouped) :
              /\ Cardinality(PlotsOf(run_grouped[k].logger_id)) =
                    (IF YieldsRow(run_grouped[k]) THEN 1 ELSE 0)
              /\ {run_log[i].step : i \in StepsOf(run_grouped[k].logger_id)} =
                    (IF YieldsRow(run_grouped[k])
                     THEN {"parse", "merge", "title", "render"}
                     ELSE {"parse", "merge"})
              /\ YieldsRow(run_grouped[k]) <=>
                    run_grouped[k].logger_id
                        \o <<"_", "c", "o", "m", "b", "i", "n", "e", "d", ".", "p", "n", "g">>
                      \in plots_dir

C17_Witness ==
    /\ run_pc = "returned"
    /\ Len(run_grouped) = 2
    /\ Len(run_grouped[1].files) = 2
    /\ YieldsRow(run_grouped[1])
    /\ ~YieldsRow(run_grouped[2])
    /\ Len(run_plots) = 1

====
